---------------------------- MODULE Spec2Model ----------------------------
(***************************************************************************)
(* EnvSync: the drift comparator (packages/core/src/compare.ts and its     *)
(* validators) and the synchronization orchestrator                        *)
(* (packages/sync/src/env-sync.ts).                                        *)
(*                                                                         *)
(* Strings are sequences of atoms.  An atom is one character ("1", ".",    *)
(* "v", "@", "-") or an indivisible run of letters ("lodash", "darwin",    *)
(* a literal fragment of a template string); no atom other than "."        *)
(* contains a dot, so split('.'), replace, startsWith and substring act on *)
(* the sequence as the JavaScript methods act on the characters.           *)
(* The values undefined and null are the reserved one-atom sequences       *)
(* Undefined and Null; interpolated into a template string they read       *)
(* "undefined" and "null", as in JavaScript.                               *)
(***************************************************************************)
EXTENDS Integers, Sequences, FiniteSets, TLC

VARIABLES
    local,      \* compareSnapshots: the local EnvironmentSnapshot
    remote,     \* compareSnapshots: the remote EnvironmentSnapshot
    report,     \* the DriftReport returned by compareSnapshots, or NoReport
    options,    \* sync: the SyncOptions of the call
    pc,         \* sync: position of the single async call chain
    todo,       \* sync: grouped[category] for each category, the drifts still to process
    actions,    \* sync: the SyncAction[] accumulated so far
    calls,      \* every execAsync command line issued, in order of issue
    inflight,   \* the execAsync calls issued and not yet settled
    result,     \* the SyncResult returned by sync, or NoResult
    fragments,  \* captureSnapshot: its options and what each collaborator does
    data        \* the persisted snapshot document, or NoData

vars == <<local, remote, report, options, pc, todo, actions, calls, inflight, result,
          fragments, data>>

-----------------------------------------------------------------------------
(* JavaScript values and string methods *)

Undefined == <<"undefined">>
Null == <<"null">>

\* JavaScript truthiness of a string | undefined | null value
Truthy(v) == v # Undefined /\ v # Null /\ v # <<>>

Digits == <<"0", "1", "2", "3", "4", "5", "6", "7", "8", "9">>

IsDigit(c) == \E i \in 1..Len(Digits) : Digits[i] = c

DigitVal(c) == (CHOOSE i \in 1..Len(Digits) : Digits[i] = c) - 1

\* Number(m[k]) of a run of digits
RECURSIVE ParseInt(_)
ParseInt(ds) ==
    IF ds = <<>> THEN 0
    ELSE ParseInt(SubSeq(ds, 1, Len(ds) - 1)) * 10 + DigitVal(ds[Len(ds)])

\* String(n) for a natural number
RECURSIVE NumStr(_)
NumStr(n) ==
    IF n < 10 THEN <<Digits[n + 1]>>
    ELSE NumStr(n \div 10) \o <<Digits[(n % 10) + 1]>>

\* s.startsWith(p)
StartsWith(s, p) == Len(s) >= Len(p) /\ SubSeq(s, 1, Len(p)) = p

\* s.indexOf(p), 1-based; 0 when p does not occur
IndexOf(s, p) ==
    LET hits == {i \in 1..(Len(s) - Len(p) + 1) : SubSeq(s, i, i + Len(p) - 1) = p}
    IN IF hits = {} THEN 0 ELSE CHOOSE i \in hits : \A j \in hits : i <= j

\* s.replace(p, r) with a string pattern: the first occurrence only
ReplaceFirst(s, p, r) ==
    LET i == IndexOf(s, p)
    IN IF i = 0 THEN s
       ELSE SubSeq(s, 1, i - 1) \o r \o SubSeq(s, i + Len(p), Len(s))

\* s.split(c) for a one-character separator c
RECURSIVE Split(_, _)
Split(s, c) ==
    LET i == IndexOf(s, <<c>>)
    IN IF i = 0 THEN <<s>>
       ELSE <<SubSeq(s, 1, i - 1)>> \o Split(SubSeq(s, i + 1, Len(s)), c)

\* s.substring(0, n)
Substring0(s, n) == SubSeq(s, 1, IF Len(s) < n THEN Len(s) ELSE n)

\* arr.includes(x)
Includes(arr, x) == \E i \in 1..Len(arr) : arr[i] = x

-----------------------------------------------------------------------------
\* semver.parse(version) under the strict FULL grammar:
\*   optional "v", then N.N.N with N = 0 or a digit run without leading zero,
\*   then an optional "-" prerelease and an optional "+" build, each a list of
\*   dot-separated identifiers.
\* The result is null when the argument is not a string or does not match.

Letters == {"v", "x", "rc", "beta", "b"}

IsIdChar(c) == IsDigit(c) \/ c \in Letters \/ c = "-"

AllDigits(s) == s # <<>> /\ \A i \in 1..Len(s) : IsDigit(s[i])

\* NUMERICIDENTIFIER: 0|[1-9]\d*
NumericIdentifier(s) == AllDigits(s) /\ (Len(s) = 1 \/ s[1] # "0")

\* BUILDIDENTIFIER: [0-9A-Za-z-]+
BuildIdentifier(s) == s # <<>> /\ \A i \in 1..Len(s) : IsIdChar(s[i])

\* PRERELEASEIDENTIFIER: a numeric identifier, or [0-9A-Za-z-]+ holding a non-digit
PrereleaseIdentifier(s) ==
    BuildIdentifier(s) /\ (NumericIdentifier(s) \/ ~AllDigits(s))

\* the index of the first c in s, or Len(s) + 1
FirstOr(s, c) == LET i == IndexOf(s, <<c>>) IN IF i = 0 THEN Len(s) + 1 ELSE i

\* the null returned by semver.parse
NoSemVer == [null |-> TRUE]

SemverParse(version) ==
    IF version = Undefined \/ version = Null THEN NoSemVer
    ELSE
    LET body   == IF version # <<>> /\ version[1] = "v" THEN Tail(version) ELSE version
        plus   == FirstOr(body, "+")
        noBld  == SubSeq(body, 1, plus - 1)
        build  == SubSeq(body, plus + 1, Len(body))
        dash   == FirstOr(noBld, "-")
        main   == SubSeq(noBld, 1, dash - 1)
        pre    == SubSeq(noBld, dash + 1, Len(noBld))
        parts  == Split(main, ".")
        preIds == Split(pre, ".")
        bldIds == Split(build, ".")
        ok     == /\ Len(parts) = 3
                  /\ \A i \in 1..3 : NumericIdentifier(parts[i])
                  /\ dash <= Len(noBld) => \A i \in 1..Len(preIds) : PrereleaseIdentifier(preIds[i])
                  /\ plus <= Len(body) => \A i \in 1..Len(bldIds) : BuildIdentifier(bldIds[i])
    IN IF ok
       THEN [major |-> ParseInt(parts[1]), minor |-> ParseInt(parts[2]),
             patch |-> ParseInt(parts[3])]
       ELSE NoSemVer

-----------------------------------------------------------------------------
(* JavaScript objects (Record<string, string>) are sequences of <<key, value>> *)
(* entries with distinct keys, in insertion order.                             *)

\* the concatenation of F(s[1]), ..., F(s[Len(s)]): a for-of loop pushing to a list
FlatMap(s, F(_)) ==
    LET f[i \in 0..Len(s)] == IF i = 0 THEN <<>> ELSE f[i - 1] \o F(s[i])
    IN f[Len(s)]

\* Object.keys(obj)
Keys(obj) == [i \in 1..Len(obj) |-> obj[i][1]]

\* obj[key]; undefined when the key is absent
Get(obj, key) ==
    IF \E i \in 1..Len(obj) : obj[i][1] = key
    THEN obj[CHOOSE i \in 1..Len(obj) : obj[i][1] = key][2]
    ELSE Undefined

\* { ...a, ...b }
Spread(a, b) ==
    [i \in 1..Len(a) |-> IF Includes(Keys(b), a[i][1]) THEN <<a[i][1], Get(b, a[i][1])>> ELSE a[i]]
    \o SelectSeq(b, LAMBDA e : ~Includes(Keys(a), e[1]))

\* [...new Set(s)]: the first occurrence of each element, in order
Unique(s) ==
    LET f[i \in 0..Len(s)] ==
            IF i = 0 THEN <<>>
            ELSE IF Includes(f[i - 1], s[i]) THEN f[i - 1] ELSE Append(f[i - 1], s[i])
    IN f[Len(s)]

-----------------------------------------------------------------------------
(* Severity classifier *)

assessNodeVersionDrift(l, r) ==
    LET localVer  == SemverParse(l)
        remoteVer == SemverParse(r)
    IN IF localVer = NoSemVer \/ remoteVer = NoSemVer THEN "medium"
       ELSE IF localVer.major # remoteVer.major THEN "high"
       ELSE IF localVer.minor # remoteVer.minor THEN "medium"
       ELSE "low"

assessVersionDrift(l, r) ==
    LET localVer  == SemverParse(l)
        remoteVer == SemverParse(r)
    IN IF localVer = NoSemVer \/ remoteVer = NoSemVer THEN "medium"
       ELSE IF localVer.major # remoteVer.major THEN "high"
       ELSE IF localVer.minor # remoteVer.minor THEN "medium"
       ELSE "low"

describeVersionImpact(pkg, l, r) ==
    LET localVer  == SemverParse(l)
        remoteVer == SemverParse(r)
    IN IF localVer = NoSemVer \/ remoteVer = NoSemVer THEN <<"Version format differs">>
       ELSE IF localVer.major # remoteVer.major
            THEN <<"Major version change", " (">> \o l \o <<" -> ">> \o r
                 \o <<") - breaking changes likely">>
       ELSE IF localVer.minor # remoteVer.minor
            THEN <<"Minor version change", " (">> \o l \o <<" -> ">> \o r
                 \o <<") - new features or deprecations">>
       ELSE <<"Patch version change", " (">> \o l \o <<" -> ">> \o r \o <<") - bug fixes">>

-----------------------------------------------------------------------------
(* Comparator *)

Drift(category, severity, field, l, r, impact, recommendation) ==
    [category |-> category, severity |-> severity, field |-> field,
     local |-> l, remote |-> r, impact |-> impact, recommendation |-> recommendation]

\* an architecture mismatch rated one level lower
compareNodeVersions_archHigh(l, r) ==
    (IF l.nodeVersion.version # r.nodeVersion.version
     THEN <<Drift("nodejs",
                  assessNodeVersionDrift(l.nodeVersion.version, r.nodeVersion.version),
                  <<"nodeVersion">>, l.nodeVersion.version, r.nodeVersion.version,
                  <<"Runtime behavior differences, potential API incompatibilities">>,
                  <<"Update local Node.js to ">> \o r.nodeVersion.version)>>
     ELSE <<>>)
    \o
    (IF l.nodeVersion.npmVersion # r.nodeVersion.npmVersion
     THEN <<Drift("nodejs", "low", <<"npmVersion">>,
                  l.nodeVersion.npmVersion, r.nodeVersion.npmVersion,
                  <<"Package installation behavior may differ">>,
                  <<"Update npm to ">> \o r.nodeVersion.npmVersion)>>
     ELSE <<>>)
    \o
    (IF l.nodeVersion.platform # r.nodeVersion.platform
     THEN <<Drift("nodejs", "critical", <<"platform">>,
                  l.nodeVersion.platform, r.nodeVersion.platform,
                  <<"Platform mismatch - native modules will fail">>,
                  <<"Ensure platform compatibility or use Docker for consistency">>)>>
     ELSE <<>>)
    \o
    (IF l.nodeVersion.arch # r.nodeVersion.arch
     THEN <<Drift("nodejs", "high", <<"arch">>,
                  l.nodeVersion.arch, r.nodeVersion.arch,
                  <<"Architecture mismatch - binaries incompatible">>,
                  <<"Ensure architecture compatibility">>)>>
     ELSE <<>>)

\* the package-manager mismatch rated by the version severity rule
compareNodeVersions_npmAssessed(l, r) ==
    (IF l.nodeVersion.version # r.nodeVersion.version
     THEN <<Drift("nodejs",
                  assessNodeVersionDrift(l.nodeVersion.version, r.nodeVersion.version),
                  <<"nodeVersion">>, l.nodeVersion.version, r.nodeVersion.version,
                  <<"Runtime behavior differences, potential API incompatibilities">>,
                  <<"Update local Node.js to ">> \o r.nodeVersion.version)>>
     ELSE <<>>)
    \o
    (IF l.nodeVersion.npmVersion # r.nodeVersion.npmVersion
     THEN <<Drift("nodejs", assessVersionDrift(l.nodeVersion.npmVersion, r.nodeVersion.npmVersion), <<"npmVersion">>,
                  l.nodeVersion.npmVersion, r.nodeVersion.npmVersion,
                  <<"Package installation behavior may differ">>,
                  <<"Update npm to ">> \o r.nodeVersion.npmVersion)>>
     ELSE <<>>)
    \o
    (IF l.nodeVersion.platform # r.nodeVersion.platform
     THEN <<Drift("nodejs", "critical", <<"platform">>,
                  l.nodeVersion.platform, r.nodeVersion.platform,
                  <<"Platform mismatch - native modules will fail">>,
                  <<"Ensure platform compatibility or use Docker for consistency">>)>>
     ELSE <<>>)
    \o
    (IF l.nodeVersion.arch # r.nodeVersion.arch
     THEN <<Drift("nodejs", "critical", <<"arch">>,
                  l.nodeVersion.arch, r.nodeVersion.arch,
                  <<"Architecture mismatch - binaries incompatible">>,
                  <<"Ensure architecture compatibility">>)>>
     ELSE <<>>)

compareNodeVersions(l, r) ==
    (IF l.nodeVersion.version # r.nodeVersion.version
     THEN <<Drift("nodejs",
                  assessNodeVersionDrift(l.nodeVersion.version, r.nodeVersion.version),
                  <<"nodeVersion">>, l.nodeVersion.version, r.nodeVersion.version,
                  <<"Runtime behavior differences, potential API incompatibilities">>,
                  <<"Update local Node.js to ">> \o r.nodeVersion.version)>>
     ELSE <<>>)
    \o
    (IF l.nodeVersion.npmVersion # r.nodeVersion.npmVersion
     THEN <<Drift("nodejs", "low", <<"npmVersion">>,
                  l.nodeVersion.npmVersion, r.nodeVersion.npmVersion,
                  <<"Package installation behavior may differ">>,
                  <<"Update npm to ">> \o r.nodeVersion.npmVersion)>>
     ELSE <<>>)
    \o
    (IF l.nodeVersion.platform # r.nodeVersion.platform
     THEN <<Drift("nodejs", "critical", <<"platform">>,
                  l.nodeVersion.platform, r.nodeVersion.platform,
                  <<"Platform mismatch - native modules will fail">>,
                  <<"Ensure platform compatibility or use Docker for consistency">>)>>
     ELSE <<>>)
    \o
    (IF l.nodeVersion.arch # r.nodeVersion.arch
     THEN <<Drift("nodejs", "critical", <<"arch">>,
                  l.nodeVersion.arch, r.nodeVersion.arch,
                  <<"Architecture mismatch - binaries incompatible">>,
                  <<"Ensure architecture compatibility">>)>>
     ELSE <<>>)

\* the version-mismatch branch taken as a plain else
packageDrift_plainElse(pkg, localVer, remoteVer) ==
    IF ~Truthy(localVer) /\ Truthy(remoteVer)
    THEN <<Drift("dependency", "high", <<"dependency", ".">> \o pkg, Undefined, remoteVer,
                 <<"Missing dependency - may cause runtime errors">>,
                 <<"Install ">> \o pkg \o <<"@">> \o remoteVer)>>
    ELSE IF Truthy(localVer) /\ ~Truthy(remoteVer)
    THEN <<Drift("dependency", "medium", <<"dependency", ".">> \o pkg, localVer, Undefined,
                 <<"Extra dependency not in remote">>,
                 <<"Remove ">> \o pkg \o <<" or add to remote environment">>)>>
    ELSE <<Drift("dependency", assessVersionDrift(localVer, remoteVer),
                 <<"dependency", ".">> \o pkg, localVer, remoteVer,
                 describeVersionImpact(pkg, localVer, remoteVer),
                 <<"Update ">> \o pkg \o <<" to ">> \o remoteVer)>>

\* the loop body of compareDependencies for one package name
packageDrift(pkg, localVer, remoteVer) ==
    IF ~Truthy(localVer) /\ Truthy(remoteVer)
    THEN <<Drift("dependency", "high", <<"dependency", ".">> \o pkg, Undefined, remoteVer,
                 <<"Missing dependency - may cause runtime errors">>,
                 <<"Install ">> \o pkg \o <<"@">> \o remoteVer)>>
    ELSE IF Truthy(localVer) /\ ~Truthy(remoteVer)
    THEN <<Drift("dependency", "medium", <<"dependency", ".">> \o pkg, localVer, Undefined,
                 <<"Extra dependency not in remote">>,
                 <<"Remove ">> \o pkg \o <<" or add to remote environment">>)>>
    ELSE IF localVer # remoteVer
    THEN <<Drift("dependency", assessVersionDrift(localVer, remoteVer),
                 <<"dependency", ".">> \o pkg, localVer, remoteVer,
                 describeVersionImpact(pkg, localVer, remoteVer),
                 <<"Update ">> \o pkg \o <<" to ">> \o remoteVer)>>
    ELSE <<>>

compareDependencies(l, r) ==
    LET allLocalPackages  == Spread(l.dependencies.production, l.dependencies.development)
        allRemotePackages == Spread(r.dependencies.production, r.dependencies.development)
        allPackageNames   == Unique(Keys(allLocalPackages) \o Keys(allRemotePackages))
    IN FlatMap(allPackageNames,
               LAMBDA pkg : packageDrift(pkg, Get(allLocalPackages, pkg),
                                         Get(allRemotePackages, pkg)))
       \o
       (IF l.dependencies.lockfileHash # r.dependencies.lockfileHash
        THEN <<Drift("dependency", "high", <<"lockfile">>,
                     Substring0(l.dependencies.lockfileHash, 8),
                     Substring0(r.dependencies.lockfileHash, 8),
                     <<"Lockfile mismatch - exact dependency versions differ">>,
                     <<"Sync lockfile to ensure identical dependency tree">>)>>
        ELSE <<>>)

REDACTED == <<"[REDACTED]">>

\* the values compared whether redacted or not
compareEnvVars_noRedaction(l, r) ==
    LET localKeys  == Keys(l.variables)
        remoteKeys == Keys(r.variables)
    IN [missing   |-> SelectSeq(remoteKeys, LAMBDA key : ~Includes(localKeys, key)),
        extra     |-> SelectSeq(localKeys, LAMBDA key : ~Includes(remoteKeys, key)),
        different |-> SelectSeq(localKeys, LAMBDA key :
                          /\ Includes(remoteKeys, key)
                          /\ Get(l.variables, key) # Get(r.variables, key))]

compareEnvVars(l, r) ==
    LET localKeys  == Keys(l.variables)
        remoteKeys == Keys(r.variables)
    IN [missing   |-> SelectSeq(remoteKeys, LAMBDA key : ~Includes(localKeys, key)),
        extra     |-> SelectSeq(localKeys, LAMBDA key : ~Includes(remoteKeys, key)),
        different |-> SelectSeq(localKeys, LAMBDA key :
                          /\ Includes(remoteKeys, key)
                          /\ Get(l.variables, key) # Get(r.variables, key)
                          /\ Get(l.variables, key) # REDACTED
                          /\ Get(r.variables, key) # REDACTED)]

compareEnvironmentVars(l, r) ==
    LET comparison == compareEnvVars(l.envVars, r.envVars)
    IN FlatMap(comparison.missing, LAMBDA key :
           <<Drift("envvar", "high", <<"env", ".">> \o key, Undefined, <<"[SET]">>,
                   <<"Missing environment variable - may cause runtime errors">>,
                   <<"Set ">> \o key \o <<" in local environment">>)>>)
       \o
       FlatMap(comparison.extra, LAMBDA key :
           <<Drift("envvar", "low", <<"env", ".">> \o key, <<"[SET]">>, Undefined,
                   <<"Extra environment variable not in remote">>,
                   <<"Remove ">> \o key \o <<" or add to remote environment">>)>>)
       \o
       FlatMap(comparison.different, LAMBDA key :
           <<Drift("envvar", "medium", <<"env", ".">> \o key,
                   Get(l.envVars.variables, key), Get(r.envVars.variables, key),
                   <<"Environment variable value differs">>,
                   <<"Update ">> \o key \o <<" to match remote value">>)>>)

compareDockerConfigs(l, r) ==
    LET localImageTags  == Unique(FlatMap(l.images, LAMBDA img : img.tags))
        remoteImageTags == Unique(FlatMap(r.images, LAMBDA img : img.tags))
    IN [versionMismatch |-> l.version # r.version,
        missingImages   |-> SelectSeq(remoteImageTags, LAMBDA tag : ~Includes(localImageTags, tag)),
        extraImages     |-> SelectSeq(localImageTags, LAMBDA tag : ~Includes(remoteImageTags, tag)),
        configDifferences |->
            IF Len(l.composeConfigs) # Len(r.composeConfigs)
            THEN << <<"Compose file count mismatch: ">> \o NumStr(Len(l.composeConfigs))
                    \o <<" vs ">> \o NumStr(Len(r.composeConfigs)) >>
            ELSE <<>>]

compareDocker(l, r) ==
    LET comparison == compareDockerConfigs(l.docker, r.docker)
    IN (IF comparison.versionMismatch
        THEN <<Drift("docker", "medium", <<"docker", ".", "version">>,
                     l.docker.version, r.docker.version,
                     <<"Docker version mismatch - behavior may differ">>,
                     <<"Update Docker to ">> \o r.docker.version)>>
        ELSE <<>>)
       \o
       FlatMap(comparison.missingImages, LAMBDA image :
           <<Drift("docker", "high", <<"docker", ".", "image", ".">> \o image,
                   Undefined, image,
                   <<"Missing Docker image">>,
                   <<"Pull Docker image: docker pull ">> \o image)>>)
       \o
       FlatMap(comparison.extraImages, LAMBDA image :
           <<Drift("docker", "low", <<"docker", ".", "image", ".">> \o image,
                   image, Undefined,
                   <<"Extra Docker image not in remote">>,
                   <<"Remove image or add to remote: ">> \o image)>>)

\* whether arr.find(m => m.name === name) finds a module
HasName(mods, name) == \E i \in 1..Len(mods) : mods[i].name = name

\* arr.find(m => m.name === name) when it finds one: the first such module
FindByName(mods, name) ==
    mods[CHOOSE i \in 1..Len(mods) :
             mods[i].name = name /\ \A j \in 1..(i - 1) : mods[j].name # name]

compareNativeModules(l, r) ==
    FlatMap(l, LAMBDA localMod :
        LET remoteMod == FindByName(r, localMod.name)
        IN IF ~HasName(r, localMod.name)
           THEN <<Drift("binary", "medium", <<"native", ".">> \o localMod.name,
                        localMod.platform, Undefined,
                        <<"Native module exists locally but not in remote environment">>,
                        <<"Ensure ">> \o localMod.name
                            \o <<" is installed in remote or remove from local">>)>>
           ELSE
             (IF localMod.platform # remoteMod.platform
              THEN <<Drift("binary", "critical",
                           <<"native", ".">> \o localMod.name \o <<".", "platform">>,
                           localMod.platform, remoteMod.platform,
                           <<"Native module compiled for ">> \o localMod.platform
                               \o <<" but remote uses ">> \o remoteMod.platform
                               \o <<" - will crash">>,
                           <<"Rebuild ">> \o localMod.name \o <<" for ">>
                               \o remoteMod.platform \o <<" platform">>)>>
              ELSE <<>>)
             \o
             (IF localMod.arch # remoteMod.arch
              THEN <<Drift("binary", "critical",
                           <<"native", ".">> \o localMod.name \o <<".", "arch">>,
                           localMod.arch, remoteMod.arch,
                           <<"Architecture mismatch: ">> \o localMod.arch \o <<" vs ">>
                               \o remoteMod.arch \o <<" - module will fail to load">>,
                           <<"Rebuild ">> \o localMod.name \o <<" for ">>
                               \o remoteMod.arch \o <<" architecture">>)>>
              ELSE <<>>)
             \o
             (IF localMod.nodeAbi # remoteMod.nodeAbi
              THEN <<Drift("binary", "critical",
                           <<"native", ".">> \o localMod.name \o <<".", "abi">>,
                           localMod.nodeAbi, remoteMod.nodeAbi,
                           <<"Incompatible Node.js ABI version (">> \o localMod.nodeAbi
                               \o <<" vs ">> \o remoteMod.nodeAbi
                               \o <<") - module will fail to load">>,
                           <<"Rebuild ">> \o localMod.name
                               \o <<" with Node.js version matching ABI ">>
                               \o remoteMod.nodeAbi)>>
              ELSE <<>>))
    \o
    FlatMap(r, LAMBDA remoteMod :
        IF ~HasName(l, remoteMod.name)
        THEN <<Drift("binary", "high", <<"native", ".">> \o remoteMod.name,
                     Undefined, remoteMod.platform,
                     <<"Native module required by remote but missing locally - may cause runtime errors">>,
                     <<"Install ">> \o remoteMod.name \o <<" locally">>)>>
        ELSE <<>>)

\* the number of elements of s that satisfy Test
Count(s, Test(_)) == Len(SelectSeq(s, Test))

\* the switch on the severity without its break statements: a case falls through
\* to the counters below it
generateSummary_fallthrough(drifts) ==
    [total    |-> Len(drifts),
     critical |-> Count(drifts, LAMBDA d : d.severity = "critical"),
     high     |-> Count(drifts, LAMBDA d : d.severity \in {"critical", "high"}),
     medium   |-> Count(drifts, LAMBDA d : d.severity \in {"critical", "high", "medium"}),
     low      |-> Count(drifts, LAMBDA d : d.severity \in {"critical", "high", "medium", "low"}),
     byCategory |->
         [c \in {"nodejs", "dependency", "envvar", "docker", "binary"} |->
             Count(drifts, LAMBDA d : d.category = c)]]

generateSummary(drifts) ==
    [total    |-> Len(drifts),
     critical |-> Count(drifts, LAMBDA d : d.severity = "critical"),
     high     |-> Count(drifts, LAMBDA d : d.severity = "high"),
     medium   |-> Count(drifts, LAMBDA d : d.severity = "medium"),
     low      |-> Count(drifts, LAMBDA d : d.severity = "low"),
     byCategory |->
         [c \in {"nodejs", "dependency", "envvar", "docker", "binary"} |->
             Count(drifts, LAMBDA d : d.category = c)]]

\* 'high' tested before 'critical'
assessOverallSeverity_highFirst(drifts) ==
    LET severities == [i \in 1..Len(drifts) |-> drifts[i].severity]
    IN IF Len(drifts) = 0 THEN "none"
       ELSE IF Includes(severities, "high") THEN "high"
       ELSE IF Includes(severities, "critical") THEN "critical"
       ELSE IF Includes(severities, "medium") THEN "medium"
       ELSE IF Includes(severities, "low") THEN "low"
       ELSE "none"

assessOverallSeverity(drifts) ==
    LET severities == [i \in 1..Len(drifts) |-> drifts[i].severity]
    IN IF Len(drifts) = 0 THEN "none"
       ELSE IF Includes(severities, "critical") THEN "critical"
       ELSE IF Includes(severities, "high") THEN "high"
       ELSE IF Includes(severities, "medium") THEN "medium"
       ELSE IF Includes(severities, "low") THEN "low"
       ELSE "none"

\* the localSnapshot and remoteSnapshot fields of the report are the variables
\* local and remote
compareSnapshots(l, r) ==
    LET drifts == compareNodeVersions(l, r)
                  \o compareDependencies(l, r)
                  \o compareEnvironmentVars(l, r)
                  \o compareDocker(l, r)
                  \o compareNativeModules(l.dependencies.nativeModules,
                                          r.dependencies.nativeModules)
    IN [hasDrift |-> Len(drifts) > 0,
        severity |-> assessOverallSeverity(drifts),
        drifts   |-> drifts,
        summary  |-> generateSummary(drifts)]

-----------------------------------------------------------------------------
(* Synchronization orchestrator: EnvironmentSync.sync *)

Categories == {"nodejs", "dependency", "envvar", "docker", "binary"}

severityOrder == <<"low", "medium", "high", "critical">>

\* arr.indexOf(x) for an array of enum strings: 0-based, -1 when absent
JsIndexOf(arr, x) ==
    IF \E i \in 1..Len(arr) : arr[i] = x
    THEN (CHOOSE i \in 1..Len(arr) : arr[i] = x /\ \A j \in 1..(i - 1) : arr[j] # x) - 1
    ELSE -1

\* the categories option ignored
filterDrifts_noCategories(drifts, opts) ==
    LET maxIndex == JsIndexOf(severityOrder, opts.maxSeverity)
    IN IF opts.maxSeverity # "undefined"
       THEN SelectSeq(drifts, LAMBDA d : JsIndexOf(severityOrder, d.severity) <= maxIndex)
       ELSE drifts

\* the ceiling itself excluded
filterDrifts_strictCeiling(drifts, opts) ==
    LET byCategory ==
            IF opts.categories # Undefined /\ Len(opts.categories) > 0
            THEN SelectSeq(drifts, LAMBDA d : Includes(opts.categories, d.category))
            ELSE drifts
        maxIndex == JsIndexOf(severityOrder, opts.maxSeverity)
    IN IF opts.maxSeverity # "undefined"
       THEN SelectSeq(byCategory, LAMBDA d : JsIndexOf(severityOrder, d.severity) < maxIndex)
       ELSE byCategory

\* the drifts left by the categories and maxSeverity options
filterDrifts(drifts, opts) ==
    LET byCategory ==
            IF opts.categories # Undefined /\ Len(opts.categories) > 0
            THEN SelectSeq(drifts, LAMBDA d : Includes(opts.categories, d.category))
            ELSE drifts
        maxIndex == JsIndexOf(severityOrder, opts.maxSeverity)
    IN IF opts.maxSeverity # "undefined"
       THEN SelectSeq(byCategory, LAMBDA d : JsIndexOf(severityOrder, d.severity) <= maxIndex)
       ELSE byCategory

\* grouped[c]; a category without drifts has no key, which reads as the empty list
groupDriftsByCategory(drifts) ==
    [c \in Categories |-> SelectSeq(drifts, LAMBDA d : d.category = c)]

\* the blocks in the order of the comparator
syncOrder_reportOrder == <<"nodejs", "dependency", "envvar", "docker", "binary">>

\* the order of the five blocks of sync
syncOrder == <<"dependency", "envvar", "docker", "binary", "nodejs">>

\* a SyncAction with success = true
Done(drift, text) ==
    [drift |-> drift, success |-> TRUE, action |-> text, error |-> Undefined]

\* the SyncAction pushed by a catch block
Failed(drift, message) ==
    [drift |-> drift, success |-> FALSE, action |-> Undefined, error |-> message]

\* outcomes of one loop iteration: push an action, await execAsync(cmd), or nothing
Push(action) == [kind |-> "push", action |-> action]
Exec(drift, cmd, text) == [kind |-> "exec", drift |-> drift, cmd |-> cmd, text |-> text]
Nothing == [kind |-> "nothing"]

\* the dry-run text without its prefix
syncDependencies_noMarker(drift, dryRun) ==
    IF drift.field = <<"lockfile">>
    THEN Push(Done(drift, <<"Lockfile sync requires manual 'npm install' or 'npm ci'">>))
    ELSE
    LET pkg       == ReplaceFirst(drift.field, <<"dependency", ".">>, <<>>)
        targetVer == drift.remote
    IN IF dryRun
       THEN Push(Done(drift, <<"Would ">> \o
                (IF Truthy(targetVer)
                 THEN <<"install ">> \o pkg \o <<"@">> \o targetVer
                 ELSE <<"remove ">> \o pkg)))
       ELSE IF ~Truthy(targetVer)
       THEN Exec(drift, <<"npm uninstall ">> \o pkg, <<"Removed ">> \o pkg)
       ELSE Exec(drift, <<"npm install ">> \o pkg \o <<"@">> \o targetVer \o <<" --save-exact">>,
                 <<"Updated ">> \o pkg \o <<" to ">> \o targetVer)

syncDependencies(drift, dryRun) ==
    IF drift.field = <<"lockfile">>
    THEN Push(Done(drift, <<"Lockfile sync requires manual 'npm install' or 'npm ci'">>))
    ELSE
    LET pkg       == ReplaceFirst(drift.field, <<"dependency", ".">>, <<>>)
        targetVer == drift.remote
    IN IF dryRun
       THEN Push(Done(drift, <<"[DRY RUN]", " Would ">> \o
                (IF Truthy(targetVer)
                 THEN <<"install ">> \o pkg \o <<"@">> \o targetVer
                 ELSE <<"remove ">> \o pkg)))
       ELSE IF ~Truthy(targetVer)
       THEN Exec(drift, <<"npm uninstall ">> \o pkg, <<"Removed ">> \o pkg)
       ELSE Exec(drift, <<"npm install ">> \o pkg \o <<"@">> \o targetVer \o <<" --save-exact">>,
                 <<"Updated ">> \o pkg \o <<" to ">> \o targetVer)

syncEnvVars(drift, dryRun) ==
    LET varName == ReplaceFirst(drift.field, <<"env", ".">>, <<>>)
    IN Push(Done(drift, <<"[MANUAL]", " Set environment variable: ">> \o varName \o <<"=">>
                 \o (IF Truthy(drift.remote) THEN drift.remote ELSE <<"(unset)">>)))

\* the dry-run branch nested under the test of the image
syncDocker_imageFirst(drift, dryRun) ==
    IF StartsWith(drift.field, <<"docker", ".", "image", ".">>)
    THEN LET image == drift.remote
         IN IF Truthy(image)
            THEN IF dryRun
                 THEN Push(Done(drift, <<"[DRY RUN]", " Would pull Docker image: ">> \o image))
                 ELSE Exec(drift, <<"docker pull ">> \o image,
                           <<"Pulled Docker image: ">> \o image)
            ELSE Nothing
    ELSE Push(Done(drift, <<"[MANUAL]", " Docker ">> \o drift.field
                   \o <<" requires manual update">>))

syncDocker(drift, dryRun) ==
    IF StartsWith(drift.field, <<"docker", ".", "image", ".">>)
    THEN LET image == drift.remote
         IN IF dryRun
            THEN Push(Done(drift, <<"[DRY RUN]", " Would pull Docker image: ">> \o image))
            ELSE IF Truthy(image)
            THEN Exec(drift, <<"docker pull ">> \o image, <<"Pulled Docker image: ">> \o image)
            ELSE Nothing
    ELSE Push(Done(drift, <<"[MANUAL]", " Docker ">> \o drift.field
                   \o <<" requires manual update">>))

\* the rebuild run whatever dryRun is
syncNativeModules_noDryRun(drift, dryRun) ==
    LET parts      == Split(drift.field, ".")
        moduleName == IF Len(parts) >= 2 THEN parts[2] ELSE Undefined
    IN Exec(drift, <<"npm rebuild ">> \o moduleName,
            <<"Rebuilt native module: ">> \o moduleName)

syncNativeModules(drift, dryRun) ==
    LET parts      == Split(drift.field, ".")
        moduleName == IF Len(parts) >= 2 THEN parts[2] ELSE Undefined
    IN IF dryRun
       THEN Push(Done(drift, <<"[DRY RUN]", " Would rebuild ">> \o moduleName))
       ELSE Exec(drift, <<"npm rebuild ">> \o moduleName,
                 <<"Rebuilt native module: ">> \o moduleName)

\* the runtime installed by a command outside a dry run
syncNodeVersion_install(drift, dryRun) ==
    IF dryRun
    THEN Push(Done(drift, <<"[MANUAL]", " Update Node.js to ">> \o drift.remote
                   \o <<" (use nvm, volta, or system package manager)">>))
    ELSE Exec(drift, <<"nvm install ">> \o drift.remote,
              <<"[MANUAL]", " Update Node.js to ">> \o drift.remote)

syncNodeVersion(drift, dryRun) ==
    Push(Done(drift, <<"[MANUAL]", " Update Node.js to ">> \o drift.remote
              \o <<" (use nvm, volta, or system package manager)">>))

\* the handler of the block of category c, applied to one drift of its loop
Handle(c, drift, dryRun) ==
    CASE c = "dependency" -> syncDependencies(drift, dryRun)
      [] c = "envvar"     -> syncEnvVars(drift, dryRun)
      [] c = "docker"     -> syncDocker(drift, dryRun)
      [] c = "binary"     -> syncNativeModules(drift, dryRun)
      [] c = "nodejs"     -> syncNodeVersion(drift, dryRun)

-----------------------------------------------------------------------------
(* Snapshots *)

\* "a.b.c"
Version(a, b, c) == NumStr(a) \o <<".">> \o NumStr(b) \o <<".">> \o NumStr(c)

\* process.version, npm --version, process.platform, process.arch, process.versions.modules
NodeVersionInfo(version, npmVersion, platform, arch, modules) ==
    [version |-> version, npmVersion |-> npmVersion, platform |-> platform,
     arch |-> arch, modules |-> modules]

\* detectNativeModules: every module carries the platform, architecture and ABI of
\* the process that captured the snapshot
NativeModules(names, nv) ==
    [i \in 1..Len(names) |->
        [name |-> names[i], platform |-> nv.platform, arch |-> nv.arch,
         nodeAbi |-> nv.modules]]

DependencySnapshot(production, development, lockfileHash) ==
    [production |-> production, development |-> development,
     lockfileHash |-> lockfileHash]

DockerSnapshot(version, images, composeConfigs) ==
    [version |-> version, images |-> images, composeConfigs |-> composeConfigs]

EnvironmentSnapshot(nv, deps, variables, docker, nativeNames) ==
    [nodeVersion  |-> nv,
     dependencies |-> [production    |-> deps.production,
                       development   |-> deps.development,
                       lockfileHash  |-> deps.lockfileHash,
                       nativeModules |-> NativeModules(nativeNames, nv)],
     envVars      |-> [variables |-> variables],
     docker       |-> docker]

Node18 == NodeVersionInfo(<<"v">> \o <<"1", "8">> \o <<".", "0", ".", "0">>, Version(9, 0, 0),
                          <<"darwin">>, <<"x64">>, <<"1", "0", "8">>)
Node18m == NodeVersionInfo(<<"v">> \o <<"1", "8">> \o <<".", "1", ".", "0">>, Version(9, 0, 0),
                           <<"darwin">>, <<"x64">>, <<"1", "0", "8">>)
Node20 == NodeVersionInfo(<<"v">> \o <<"2", "0">> \o <<".", "0", ".", "0">>, Version(9, 0, 0),
                          <<"darwin">>, <<"x64">>, <<"1", "1", "5">>)
Node20Linux == NodeVersionInfo(<<"v">> \o <<"2", "0">> \o <<".", "0", ".", "0">>, Version(10, 0, 0),
                               <<"linux">>, <<"x64">>, <<"1", "1", "5">>)

HashA == <<"a", "b", "c", "1", "2", "3">>
HashB == <<"x", "y", "z", "7", "8", "9">>

NoDeps == DependencySnapshot(<<>>, <<>>, HashA)
NoDocker == DockerSnapshot(Null, <<>>, <<>>)

\* the snapshot of the comparator's test suite (createMockSnapshot)
BaseSnapshot == EnvironmentSnapshot(Node18, NoDeps, <<>>, NoDocker, <<>>)

\* hashSnapshot: the first 16 hex digits of the SHA-256 of JSON.stringify(data). The
\* digest is taken as collision-free: two digests are equal exactly when the
\* stringified data, the eight values below in this order, are equal
hashSnapshot(snapshot) ==
    <<snapshot.nodeVersion.version,
      snapshot.nodeVersion.platform,
      snapshot.nodeVersion.arch,
      snapshot.nodeVersion.modules,
      snapshot.dependencies.lockfileHash,
      Len(Keys(snapshot.envVars.variables)),
      snapshot.docker.version,
      Len(snapshot.docker.images)>>

compareSnapshotHashes(hash1, hash2) == hash1 = hash2

NoReport == [none |-> TRUE]
NoResult == [none |-> TRUE]
NoOptions == [autoFix |-> FALSE, dryRun |-> FALSE, categories |-> Undefined,
              maxSeverity |-> "undefined"]

NoFragments == [none |-> TRUE]
NoData == <<>>

\* no capture under way and no document read
CaptureIdle ==
    /\ fragments = NoFragments
    /\ data = NoData

\* the orchestrator before a call of sync
SyncIdle ==
    /\ options = NoOptions
    /\ todo = groupDriftsByCategory(<<>>)
    /\ actions = <<>>
    /\ calls = <<>>
    /\ inflight = <<>>
    /\ result = NoResult

-----------------------------------------------------------------------------
(* compareSnapshots on pairs of snapshots that differ in every category *)

BroadNodes == {Node18, Node18m, Node20Linux}

BroadDeps ==
    { NoDeps,
      DependencySnapshot(<< <<<<"lodash">>, Version(4, 17, 20)>> >>, <<>>, HashA),
      DependencySnapshot(<< <<<<"lodash">>, Version(4, 17, 21)>>,
                            <<<<"express">>, Version(5, 0, 0)>> >>,
                         << <<<<"vitest">>, <<"^">> \o Version(1, 0, 0)>> >>, HashB) }

BroadEnv ==
    { <<>>,
      << <<<<"NODE_ENV">>, <<"development">>>> >>,
      << <<<<"NODE_ENV">>, <<"production">>>>, <<<<"API_KEY">>, REDACTED>> >> }

BroadDocker ==
    { NoDocker,
      DockerSnapshot(Version(24, 0, 5), << [tags |-> << <<"node", ":", "1", "8">> >>] >>, <<>>),
      DockerSnapshot(Version(24, 0, 5),
                     << [tags |-> << <<"node", ":", "2", "0">>, <<"redis", ":", "7">> >>] >>,
                     << [file |-> <<"docker-compose", ".", "yml">>] >>) }

BroadNative == { <<>>, << <<"bcrypt">>, <<"sharp">> >> }

BroadSnapshots ==
    { EnvironmentSnapshot(n, d, e, k, b) :
        n \in BroadNodes, d \in BroadDeps, e \in BroadEnv, k \in BroadDocker, b \in BroadNative }

InitCmp ==
    /\ local \in BroadSnapshots
    /\ remote \in BroadSnapshots
    /\ report = NoReport
    /\ pc = "start"
    /\ SyncIdle
    /\ CaptureIdle

\* report = compareSnapshots(local, remote)
CompareSnapshots ==
    /\ pc = "start"
    /\ report' = compareSnapshots(local, remote)
    /\ pc' = "compared"
    /\ UNCHANGED <<fragments, data, local, remote, options, todo, actions, calls, inflight, result>>

NextCmp == CompareSnapshots

SpecCmp == InitCmp /\ [][NextCmp]_vars

-----------------------------------------------------------------------------
(* compareSnapshots on snapshots that differ in their declared dependencies *)

Lodash == <<"lodash">>
Express == <<"express">>

\* version ranges of a package manifest; the empty range "" is npm's "any version"
DepRanges == { Version(1, 0, 0), <<"^">> \o Version(2, 0, 0), <<>> }

\* a bucket with no entry for the name, or with one
Slot(name) == { <<>> } \cup { << <<name, range>> >> : range \in DepRanges }

DepsSnapshots ==
    { EnvironmentSnapshot(Node18,
          DependencySnapshot(pl \o pe, dl, HashA), <<>>, NoDocker, <<>>) :
        pl \in Slot(Lodash), pe \in Slot(Express), dl \in Slot(Lodash) }

InitDeps ==
    /\ local \in DepsSnapshots
    /\ remote \in DepsSnapshots
    /\ report = NoReport
    /\ pc = "start"
    /\ SyncIdle
    /\ CaptureIdle

SpecDeps == InitDeps /\ [][NextCmp]_vars

-----------------------------------------------------------------------------
(* compareSnapshots on snapshots that differ in one version string, which is both *)
(* the runtime version and the range of one dependency                            *)

MaxVersionPart == 1

VersionStrings ==
    { prefix \o Version(a, b, c) :
        prefix \in { <<>>, <<"v">>, <<"^">> },
        a \in 0..MaxVersionPart, b \in 0..MaxVersionPart, c \in 0..MaxVersionPart }
    \cup
    { <<>>,
      <<"1", ".", "0">>,
      <<"0", "1", ".", "0", ".", "0">>,
      <<"v", "1", "8", ".", "0", ".", "0">>,
      <<"1", ".", "0", ".", "0", "-", "rc", ".", "1">>,
      <<"1", ".", "1", ".", "0", "+", "b">>,
      <<"1", ".", "0", ".", "0", "-", "0", "1">>,
      <<"x">> }

VersionSnapshot(version) ==
    EnvironmentSnapshot(
        NodeVersionInfo(version, Version(9, 0, 0), <<"darwin">>, <<"x64">>, <<"1", "0", "8">>),
        DependencySnapshot(<< <<Lodash, version>> >>, <<>>, HashA), <<>>, NoDocker, <<>>)

InitVer ==
    /\ local \in { VersionSnapshot(v) : v \in VersionStrings }
    /\ remote \in { VersionSnapshot(v) : v \in VersionStrings }
    /\ report = NoReport
    /\ pc = "start"
    /\ SyncIdle
    /\ CaptureIdle

SpecVer == InitVer /\ [][NextCmp]_vars

-----------------------------------------------------------------------------
(* compareSnapshots on snapshots that differ in their native modules and in the *)
(* platform, architecture and ABI of the process that captured them             *)

\* the runtime info of a process: ABI 108 is Node 18, ABI 115 is Node 20
NativeNode(platform, arch, modules) ==
    NodeVersionInfo(IF modules = <<"1", "0", "8">>
                    THEN <<"v">> \o <<"1", "8">> \o <<".", "0", ".", "0">>
                    ELSE <<"v">> \o <<"2", "0">> \o <<".", "0", ".", "0">>,
                    Version(9, 0, 0), platform, arch, modules)

NativeNodes ==
    { NativeNode(p, a, m) :
        p \in { <<"darwin">>, <<"linux">> },
        a \in { <<"x64">>, <<"arm64">> },
        m \in { <<"1", "0", "8">>, <<"1", "1", "5">> } }

\* the module names of the .node files found under node_modules, one per file:
\* a package that ships two .node files is listed twice
NativeLists ==
    { <<>>,
      << <<"bcrypt">> >>,
      << <<"bcrypt">>, <<"sharp">> >>,
      << <<"bcrypt">>, <<"bcrypt">> >>,
      << <<"sharp">>, <<"bcrypt">>, <<"sharp">> >> }

NativeSnapshots ==
    { EnvironmentSnapshot(nv, NoDeps, <<>>, NoDocker, names) :
        nv \in NativeNodes, names \in NativeLists }

InitNative ==
    /\ local \in NativeSnapshots
    /\ remote \in NativeSnapshots
    /\ report = NoReport
    /\ pc = "start"
    /\ SyncIdle
    /\ CaptureIdle

SpecNative == InitNative /\ [][NextCmp]_vars

-----------------------------------------------------------------------------
(* compareSnapshots on snapshots that differ in their environment variables *)

EnvKeys == { <<"NODE_ENV">>, <<"API_KEY">> }

\* values as captureEnvVars stores them: in the clear (the empty value included)
\* or replaced by the sentinel
EnvValues == { <<"development">>, <<"production">>, <<>>, REDACTED }

\* a variables object without the key, or with it
EnvSlot(key) == { <<>> } \cup { << <<key, value>> >> : value \in EnvValues }

EnvSnapshots ==
    { EnvironmentSnapshot(Node18, NoDeps, a \o b, NoDocker, <<>>) :
        a \in EnvSlot(<<"NODE_ENV">>), b \in EnvSlot(<<"API_KEY">>) }

InitEnv ==
    /\ local \in EnvSnapshots
    /\ remote \in EnvSnapshots
    /\ report = NoReport
    /\ pc = "start"
    /\ SyncIdle
    /\ CaptureIdle

SpecEnv == InitEnv /\ [][NextCmp]_vars

-----------------------------------------------------------------------------
(* compareSnapshots on snapshots that differ in their docker state *)

\* a parsed docker-compose file
DockerComposeConfig(file, services, networks, volumes) ==
    [file |-> file, services |-> services, networks |-> networks, volumes |-> volumes]

ComposeWeb ==
    DockerComposeConfig(<<"docker-compose", ".", "yml">>, << <<"web">> >>, <<>>, <<>>)
ComposeWebDb ==
    DockerComposeConfig(<<"docker-compose", ".", "yml">>, << <<"web">>, <<"db">> >>,
                        << <<"backend">> >>, << <<"pgdata">> >>)
ComposeDev ==
    DockerComposeConfig(<<"docker-compose", ".", "dev", ".", "yml">>, << <<"web">> >>, <<>>, <<>>)

\* the compose files found under the working directory
ComposeLists == { <<>>, <<ComposeWeb>>, <<ComposeWebDb>>, <<ComposeWeb, ComposeDev>> }

DockerSnapshots ==
    { EnvironmentSnapshot(Node18, NoDeps, <<>>, DockerSnapshot(v, images, configs), <<>>) :
        v \in { Null, Version(24, 0, 5) },
        images \in { <<>>, << [tags |-> << <<"node", ":", "1", "8">> >>] >> },
        configs \in ComposeLists }

InitDocker ==
    /\ local \in DockerSnapshots
    /\ remote \in DockerSnapshots
    /\ report = NoReport
    /\ pc = "start"
    /\ SyncIdle
    /\ CaptureIdle

SpecDocker == InitDocker /\ [][NextCmp]_vars

-----------------------------------------------------------------------------
(* compareSnapshots on snapshots that differ in the runtime info: the runtime *)
(* version, the package-manager version, the platform and the architecture    *)

\* process.version with the ABI that goes with it, npm --version, process.platform,
\* process.arch
RuntimeNodes ==
    { NodeVersionInfo(<<"v">> \o v[1] \o <<".", "0", ".", "0">>, npm, p, a, v[2]) :
        v \in { << <<"1", "8">>, <<"1", "0", "8">> >>, << <<"2", "0">>, <<"1", "1", "5">> >> },
        npm \in { Version(9, 0, 0), Version(9, 1, 0), Version(10, 0, 0) },
        p \in { <<"darwin">>, <<"linux">>, <<"win32">> },
        a \in { <<"x64">>, <<"arm64">> } }

RuntimeSnapshots ==
    { EnvironmentSnapshot(nv, NoDeps, <<>>, NoDocker, names) :
        nv \in RuntimeNodes, names \in { <<>>, << <<"bcrypt">> >> } }

InitNode ==
    /\ local \in RuntimeSnapshots
    /\ remote \in RuntimeSnapshots
    /\ report = NoReport
    /\ pc = "start"
    /\ SyncIdle
    /\ CaptureIdle

SpecNode == InitNode /\ [][NextCmp]_vars

-----------------------------------------------------------------------------
(* compareSnapshots on snapshots that differ in the digest of their lockfile, in *)
(* one declared dependency and in the value of one environment variable         *)

\* hashContent: the hex SHA-256 digest of a lockfile, 64 hex digits, written as its
\* first eight digits, one atom each, followed by the other 56 as one atom
Digest(first8, rest) == first8 \o <<rest>>

DigestOne == Digest(<<"3", "a", "7", "b", "d", "3", "e", "2">>, "360a3d29eea436fcfb7e44c735d117c42d1c1835420b6b9942dd4f1b")
DigestTwo == Digest(<<"3", "a", "7", "b", "d", "3", "e", "2">>, "b11dce8f5a0c4e6d92f07a3b6c58e1d4907f2a6b3c8d5e1f0a9b7c6d")
DigestThree == Digest(<<"9", "f", "8", "6", "d", "0", "8", "1">>, "884c7d659a2feaa0c55ad015a3bf4f1b2b0b822cd15d6c15b0f00a08")

\* captureDependencies: the dependencies of package.json with the digest of the
\* lockfile, or the empty fragment captureSnapshot substitutes when it fails
LockDependencies ==
    { DependencySnapshot(production, <<>>, lockfileHash) :
        production \in { <<>>, << <<Lodash, Version(4, 17, 21)>> >> },
        lockfileHash \in { DigestOne, DigestTwo, DigestThree } }
    \cup { DependencySnapshot(<<>>, <<>>, <<>>) }

LockSnapshots ==
    { EnvironmentSnapshot(Node18, deps, variables, NoDocker, <<>>) :
        deps \in LockDependencies,
        variables \in { <<>>,
                        << <<<<"NODE_ENV">>, <<"development">>>> >>,
                        << <<<<"NODE_ENV">>, <<"production">>>> >> } }

InitLock ==
    /\ local \in LockSnapshots
    /\ remote \in LockSnapshots
    /\ report = NoReport
    /\ pc = "start"
    /\ SyncIdle
    /\ CaptureIdle

SpecLock == InitLock /\ [][NextCmp]_vars

-----------------------------------------------------------------------------
(* captureSnapshot under every combination of its options and of the failures *)
(* of the collaborators it calls                                              *)

\* a call that threw, or a promise that rejected
Thrown == [thrown |-> TRUE]

\* no snapshot captured or loaded yet
NoSnapshot == [none |-> TRUE]

\* a Date: its time value in milliseconds since the epoch
JsDate(time) == [time |-> time]

\* the clock readings of new Date()
Times == { 0, 7, 1042 }

\* what each collaborator does in one call of captureSnapshot:
\*   npm           execSync('npm --version') of captureNodeVersion
\*   dependencies  captureDependencies (package.json or lockfile missing: it throws)
\*   daemon        docker.version() and the listings of captureDockerConfig
\*   compose       parseDockerComposeFiles (the glob over the working directory)
\*   system        the os calls of captureSystemInfo
\* with the SnapshotOptions of the call and the reading of the clock
Fragments ==
    [redactSensitive : BOOLEAN, includeDocker : BOOLEAN, includeNativeModules : BOOLEAN,
     npm : {"ok", "fail"}, dependencies : {"ok", "fail"}, daemon : {"ok", "fail"},
     compose : {"ok", "fail"}, system : {"ok", "fail"}, now : {1042}]

captureNodeVersion(f) ==
    IF f.npm = "fail" THEN Thrown ELSE Node18

\* package.json and the lockfile of the working directory
captureDependencies(f) ==
    IF f.dependencies = "fail" THEN Thrown
    ELSE DependencySnapshot(<< <<Lodash, Version(4, 17, 21)>> >>, <<>>, DigestOne)

\* the .node files found by detectNativeModules
CapturedNativeNames == << <<"bcrypt">> >>

\* process.env
ProcessEnv ==
    << <<<<"NODE_ENV">>, <<"production">>>>, <<<<"API_KEY">>, <<"s3cr3t">>>> >>

\* SENSITIVE_PATTERNS.some(p => p.test(key)) on the keys of ProcessEnv
IsSensitive(key) == key = <<"API_KEY">>

captureEnvVars(redactSensitive) ==
    [i \in 1..Len(ProcessEnv) |->
        IF redactSensitive /\ IsSensitive(ProcessEnv[i][1])
        THEN <<ProcessEnv[i][1], REDACTED>>
        ELSE ProcessEnv[i]]

\* the try block fails on the daemon or on the compose files; the catch block parses
\* the compose files again, outside any handler
captureDockerConfig(f) ==
    IF f.compose = "fail" THEN Thrown
    ELSE IF f.daemon = "fail" THEN DockerSnapshot(Null, <<>>, <<ComposeWeb>>)
    ELSE DockerSnapshot(Version(24, 0, 5), << [tags |-> << <<"node", ":", "1", "8">> >>] >>,
                        <<ComposeWeb>>)

SystemInfo == [platform |-> <<"darwin">>, arch |-> <<"x64">>, cpus |-> 8]

captureSystemInfo(f) ==
    IF f.system = "fail" THEN Thrown ELSE SystemInfo

\* the fragments substituted by the catch handlers of captureSnapshot
EmptyDependencies == DependencySnapshot(<<>>, <<>>, <<>>)
EmptyDocker == DockerSnapshot(Null, <<>>, <<>>)

\* the snapshot captureSnapshot resolves with, or Thrown when it rejects
captureSnapshot(f) ==
    LET nodeVersion  == captureNodeVersion(f)
        dependencies == IF captureDependencies(f) = Thrown
                        THEN EmptyDependencies ELSE captureDependencies(f)
        nativeNames  == IF captureDependencies(f) = Thrown \/ ~f.includeNativeModules
                        THEN <<>> ELSE CapturedNativeNames
        envVars      == captureEnvVars(f.redactSensitive)
        docker       == IF ~f.includeDocker \/ captureDockerConfig(f) = Thrown
                        THEN EmptyDocker ELSE captureDockerConfig(f)
        system       == captureSystemInfo(f)
    IN IF nodeVersion = Thrown \/ system = Thrown THEN Thrown
       ELSE LET snapshot == EnvironmentSnapshot(nodeVersion, dependencies, envVars,
                                                docker, nativeNames)
            IN [timestamp |-> JsDate(f.now), environment |-> "local", system |-> system,
                hash |-> hashSnapshot(snapshot)] @@ snapshot

InitCapture ==
    /\ fragments \in Fragments
    /\ data = NoData
    /\ local = NoSnapshot
    /\ remote = NoSnapshot
    /\ report = NoReport
    /\ pc = "start"
    /\ SyncIdle

\* const localSnapshot = await captureSnapshot()
CaptureSnapshot ==
    /\ pc = "start"
    /\ IF captureSnapshot(fragments) = Thrown
       THEN pc' = "rejected" /\ local' = local
       ELSE pc' = "captured" /\ local' = captureSnapshot(fragments)
    /\ UNCHANGED <<fragments, data, remote, report, options, todo, actions, calls,
                   inflight, result>>

NextCapture == CaptureSnapshot

SpecCapture == InitCapture /\ [][NextCapture]_vars

-----------------------------------------------------------------------------
(* Persisted snapshots: JavaScript values, the JSON text JSON.stringify writes *)
(* for them and JSON.parse reads back, serializeSnapshot, deserializeSnapshot  *)

\* JavaScript values: strings, numbers, null, undefined, Dates (JsDate), the Invalid
\* Date, arrays, and objects as sequences of <<key, value>> in insertion order
JsString(s) == [str |-> s]
JsNumber(n) == [num |-> n]
JsNull == [null |-> TRUE]
JsUndefined == [undefined |-> TRUE]
InvalidDate == [invalidDate |-> TRUE]
JsArray(items) == [items |-> items]
JsObject(props) == [props |-> props]

IsString(v) == "str" \in DOMAIN v
IsNumber(v) == "num" \in DOMAIN v
IsDate(v) == "time" \in DOMAIN v
IsArray(v) == "items" \in DOMAIN v
IsObject(v) == "props" \in DOMAIN v

\* the truthiness of a value
ToBoolean(v) ==
    IF IsString(v) THEN v.str # <<>>
    ELSE IF IsNumber(v) THEN v.num # 0
    ELSE v # JsNull /\ v # JsUndefined

\* v[key]: an own property of an object, undefined on any other value (v?.[key] on
\* null and undefined as well)
GetProp(v, key) ==
    IF IsObject(v) /\ \E i \in 1..Len(v.props) : v.props[i][1] = key
    THEN v.props[CHOOSE i \in 1..Len(v.props) : v.props[i][1] = key][2]
    ELSE JsUndefined

\* obj[key] = value, and { ...obj, key: value }: an existing key keeps its place
SetProp(obj, key, value) ==
    IF \E i \in 1..Len(obj.props) : obj.props[i][1] = key
    THEN JsObject([i \in 1..Len(obj.props) |->
                      IF obj.props[i][1] = key THEN <<key, value>> ELSE obj.props[i]])
    ELSE JsObject(Append(obj.props, <<key, value>>))

\* { ...v }: the own enumerable properties of any value
SpreadOf(v) ==
    IF IsObject(v) THEN v
    ELSE IF IsArray(v)
         THEN JsObject([i \in 1..Len(v.items) |-> <<NumStr(i - 1), v.items[i]>>])
    ELSE IF IsString(v)
         THEN JsObject([i \in 1..Len(v.str) |-> <<NumStr(i - 1), JsString(<<v.str[i]>>)>>])
    ELSE JsObject(<<>>)

\* String(n).padStart(3, '0')
PadStart3(n) ==
    IF n < 10 THEN <<"0", "0">> \o NumStr(n)
    ELSE IF n < 100 THEN <<"0">> \o NumStr(n)
    ELSE NumStr(n)

\* Date.prototype.toISOString for the first ten seconds of the epoch:
\* 1970-01-01T00:00:0s.mmmZ
toISOString(time) ==
    <<"1970-01-01T00:00:0">> \o NumStr(time \div 1000) \o <<".">>
        \o PadStart3(time % 1000) \o <<"Z">>

\* the strings Date.parse reads as a time of the first ten seconds of the epoch
IsIsoDate(s) ==
    /\ Len(s) = 7
    /\ s[1] = "1970-01-01T00:00:0"
    /\ IsDigit(s[2])
    /\ s[3] = "."
    /\ \A i \in 4..6 : IsDigit(s[i])
    /\ s[7] = "Z"

\* new Date(v)
NewDate(v) ==
    IF IsString(v)
    THEN IF IsIsoDate(v.str)
         THEN JsDate(DigitVal(v.str[2]) * 1000 + ParseInt(SubSeq(v.str, 4, 6)))
         ELSE InvalidDate
    ELSE IF IsNumber(v) THEN JsDate(v.num)
    ELSE IF IsDate(v) THEN v
    ELSE IF v = JsNull THEN JsDate(0)
    ELSE InvalidDate

\* JSON text is a sequence of tokens; the white space between them is left out
Punct(c) == [punct |-> c]
StringToken(s) == [string |-> s]
NumberToken(n) == [number |-> n]
NullToken == [literal |-> "null"]

\* parts.join(',') on token sequences
JoinComma(parts) ==
    LET f[i \in 0..Len(parts)] ==
            IF i = 0 THEN <<>>
            ELSE IF i = 1 THEN parts[1]
            ELSE f[i - 1] \o <<Punct(",")>> \o parts[i]
    IN f[Len(parts)]

\* JSON.stringify(v, null, 2): a Date is written as its toJSON, the Invalid Date as
\* null, an undefined property is left out, an undefined item is written as null
RECURSIVE JsonStringify(_)
JsonStringify(v) ==
    IF IsString(v) THEN <<StringToken(v.str)>>
    ELSE IF IsNumber(v) THEN <<NumberToken(v.num)>>
    ELSE IF IsDate(v) THEN <<StringToken(toISOString(v.time))>>
    ELSE IF IsArray(v)
         THEN <<Punct("[")>>
              \o JoinComma([i \in 1..Len(v.items) |-> JsonStringify(v.items[i])])
              \o <<Punct("]")>>
    ELSE IF IsObject(v)
         THEN LET kept == SelectSeq(v.props, LAMBDA e : e[2] # JsUndefined)
              IN <<Punct("{")>>
                 \o JoinComma([i \in 1..Len(kept) |->
                                  <<StringToken(kept[i][1]), Punct(":")>>
                                      \o JsonStringify(kept[i][2])])
                 \o <<Punct("}")>>
    ELSE <<NullToken>>

\* the SyntaxError of JSON.parse
SyntaxError == [ok |-> FALSE]

Parsed(value, next) == [ok |-> TRUE, value |-> value, next |-> next]

\* the value that starts at token i of text and the place after it; the items of an
\* array after its bracket; the members of an object after its brace
RECURSIVE ParseValue(_, _), ParseItems(_, _, _), ParseMembers(_, _, _)
ParseValue(text, i) ==
    IF i > Len(text) THEN SyntaxError
    ELSE IF "string" \in DOMAIN text[i] THEN Parsed(JsString(text[i].string), i + 1)
    ELSE IF "number" \in DOMAIN text[i] THEN Parsed(JsNumber(text[i].number), i + 1)
    ELSE IF text[i] = NullToken THEN Parsed(JsNull, i + 1)
    ELSE IF text[i] = Punct("[")
         THEN IF i < Len(text) /\ text[i + 1] = Punct("]")
              THEN Parsed(JsArray(<<>>), i + 2)
              ELSE ParseItems(text, i + 1, <<>>)
    ELSE IF text[i] = Punct("{")
         THEN IF i < Len(text) /\ text[i + 1] = Punct("}")
              THEN Parsed(JsObject(<<>>), i + 2)
              ELSE ParseMembers(text, i + 1, JsObject(<<>>))
    ELSE SyntaxError

ParseItems(text, i, items) ==
    LET item == ParseValue(text, i)
    IN IF item = SyntaxError THEN SyntaxError
       ELSE IF item.next > Len(text) THEN SyntaxError
       ELSE IF text[item.next] = Punct(",")
            THEN ParseItems(text, item.next + 1, Append(items, item.value))
       ELSE IF text[item.next] = Punct("]")
            THEN Parsed(JsArray(Append(items, item.value)), item.next + 1)
       ELSE SyntaxError

ParseMembers(text, i, obj) ==
    IF i + 1 > Len(text) THEN SyntaxError
    ELSE IF "string" \notin DOMAIN text[i] \/ text[i + 1] # Punct(":") THEN SyntaxError
    ELSE LET member == ParseValue(text, i + 2)
         IN IF member = SyntaxError THEN SyntaxError
            ELSE IF member.next > Len(text) THEN SyntaxError
            ELSE IF text[member.next] = Punct(",")
                 THEN ParseMembers(text, member.next + 1,
                                   SetProp(obj, text[i].string, member.value))
            ELSE IF text[member.next] = Punct("}")
                 THEN Parsed(SetProp(obj, text[i].string, member.value), member.next + 1)
            ELSE SyntaxError

\* JSON.parse(text): one value and nothing after it
JsonParse(text) ==
    LET doc == ParseValue(text, 1)
    IN IF doc = SyntaxError THEN SyntaxError
       ELSE IF doc.next # Len(text) + 1 THEN SyntaxError
       ELSE doc

serializeSnapshot(snapshot) == JsonStringify(snapshot)

\* arr.map(f) of deserializeSnapshot: the TypeError of a null item is Thrown
MapItems(items, created) ==
    IF \E i \in 1..Len(items) : items[i] = JsNull THEN Thrown
    ELSE JsArray([i \in 1..Len(items) |->
                    IF created
                    THEN SetProp(SpreadOf(items[i]), <<"created">>,
                                 IF ToBoolean(GetProp(items[i], <<"created">>))
                                 THEN NewDate(GetProp(items[i], <<"created">>))
                                 ELSE JsUndefined)
                    ELSE SetProp(SpreadOf(items[i]), <<"modified">>,
                                 NewDate(GetProp(items[i], <<"modified">>)))])

\* the image dates converted whether present or not
deserializeSnapshot_createdAlways(text) ==
    IF JsonParse(text) = SyntaxError THEN Thrown
    ELSE
    LET parsed == JsonParse(text).value
    IN IF IsArray(parsed) THEN parsed
       ELSE IF ~IsObject(parsed) THEN Thrown
       ELSE
       LET stamped == SetProp(parsed, <<"timestamp">>,
                              NewDate(GetProp(parsed, <<"timestamp">>)))
           docker  == GetProp(stamped, <<"docker">>)
           images  == GetProp(docker, <<"images">>)
           mapped  == IF IsArray(images)
                      THEN IF \E i \in 1..Len(images.items) : images.items[i] = JsNull
                           THEN Thrown
                           ELSE JsArray([i \in 1..Len(images.items) |->
                                    SetProp(SpreadOf(images.items[i]), <<"created">>,
                                            NewDate(GetProp(images.items[i], <<"created">>)))])
                      ELSE Thrown
           withImages == IF ToBoolean(images) /\ mapped # Thrown
                         THEN SetProp(stamped, <<"docker">>,
                                      SetProp(docker, <<"images">>, mapped))
                         ELSE stamped
           dependencies == GetProp(withImages, <<"dependencies">>)
           modules == GetProp(dependencies, <<"nativeModules">>)
           dated   == IF IsArray(modules) THEN MapItems(modules.items, FALSE) ELSE Thrown
       IN IF ToBoolean(images) /\ mapped = Thrown THEN Thrown
          ELSE IF ToBoolean(modules) /\ dated = Thrown THEN Thrown
          ELSE IF ToBoolean(modules)
               THEN SetProp(withImages, <<"dependencies">>,
                            SetProp(dependencies, <<"nativeModules">>, dated))
          ELSE withImages

\* the snapshot deserializeSnapshot returns, or Thrown: the SyntaxError of JSON.parse,
\* the TypeError of a property set on null or on a primitive, of map on a value that
\* is not an array, of a property read on a null item. A property set on an array
\* is not one of its items.
deserializeSnapshot(text) ==
    IF JsonParse(text) = SyntaxError THEN Thrown
    ELSE
    LET parsed == JsonParse(text).value
    IN IF IsArray(parsed) THEN parsed
       ELSE IF ~IsObject(parsed) THEN Thrown
       ELSE
       LET stamped == SetProp(parsed, <<"timestamp">>,
                              NewDate(GetProp(parsed, <<"timestamp">>)))
           docker  == GetProp(stamped, <<"docker">>)
           images  == GetProp(docker, <<"images">>)
           mapped  == IF IsArray(images) THEN MapItems(images.items, TRUE) ELSE Thrown
           withImages == IF ToBoolean(images) /\ mapped # Thrown
                         THEN SetProp(stamped, <<"docker">>,
                                      SetProp(docker, <<"images">>, mapped))
                         ELSE stamped
           dependencies == GetProp(withImages, <<"dependencies">>)
           modules == GetProp(dependencies, <<"nativeModules">>)
           dated   == IF IsArray(modules) THEN MapItems(modules.items, FALSE) ELSE Thrown
       IN IF ToBoolean(images) /\ mapped = Thrown THEN Thrown
          ELSE IF ToBoolean(modules) /\ dated = Thrown THEN Thrown
          ELSE IF ToBoolean(modules)
               THEN SetProp(withImages, <<"dependencies">>,
                            SetProp(dependencies, <<"nativeModules">>, dated))
          ELSE withImages

-----------------------------------------------------------------------------
(* A captured snapshot saved to a file, the file possibly damaged or replaced, *)
(* and loaded again by deserializeSnapshot                                     *)

\* an image of docker.listImages(): created is a Date, or undefined for an image
\* without a creation time
ImageObject(tag, created) ==
    JsObject(<< <<<<"id">>, JsString(<<"4f1b2b0b822c">>)>>,
                <<<<"tags">>, JsArray(<<JsString(tag)>>)>>,
                <<<<"size">>, JsNumber(1024)>>,
                <<<<"created">>, created>> >>)

\* a native module of detectNativeModules: modified is the mtime of its file
NativeModuleObject(name, modified) ==
    JsObject(<< <<<<"name">>, JsString(name)>>,
                <<<<"path">>, JsString(<<"node_modules/">> \o name \o <<"/build/Release/binding", ".", "node">>)>>,
                <<<<"platform">>, JsString(<<"darwin">>)>>,
                <<<<"arch">>, JsString(<<"x64">>)>>,
                <<<<"nodeAbi">>, JsString(<<"1", "0", "8">>)>>,
                <<<<"size">>, JsNumber(2048)>>,
                <<<<"modified">>, modified>> >>)

\* the object assembled by captureSnapshot, its properties in the order of the
\* object literal; openssl is process.versions.openssl, a string or undefined
SnapshotObject(timestamp, openssl, dockerVersion, images, nativeModules) ==
    JsObject(<<
        <<<<"timestamp">>, JsDate(timestamp)>>,
        <<<<"environment">>, JsString(<<"local">>)>>,
        <<<<"nodeVersion">>,
          JsObject(<< <<<<"version">>, JsString(Node18.version)>>,
                      <<<<"npmVersion">>, JsString(Node18.npmVersion)>>,
                      <<<<"platform">>, JsString(Node18.platform)>>,
                      <<<<"arch">>, JsString(Node18.arch)>>,
                      <<<<"modules">>, JsString(Node18.modules)>>,
                      <<<<"openssl">>, openssl>> >>)>>,
        <<<<"dependencies">>,
          JsObject(<< <<<<"production">>,
                        JsObject(<< <<Lodash, JsString(Version(4, 17, 21))>> >>)>>,
                      <<<<"development">>, JsObject(<<>>)>>,
                      <<<<"lockfileHash">>, JsString(DigestOne)>>,
                      <<<<"nativeModules">>, JsArray(nativeModules)>> >>)>>,
        <<<<"envVars">>,
          JsObject(<< <<<<"variables">>,
                        JsObject(<< <<<<"NODE_ENV">>, JsString(<<"production">>)>> >>)>>,
                      <<<<"redacted">>, JsArray(<<>>)>> >>)>>,
        <<<<"docker">>,
          JsObject(<< <<<<"version">>, dockerVersion>>,
                      <<<<"images">>, JsArray(images)>>,
                      <<<<"composeConfigs">>, JsArray(<<>>)>> >>)>>,
        <<<<"system">>,
          JsObject(<< <<<<"platform">>, JsString(<<"darwin">>)>>,
                      <<<<"cpus">>, JsNumber(8)>> >>)>>,
        <<<<"hash">>, JsString(<<"9f86d081884c7d65">>)>> >>)

\* the container fragment: the daemon unreachable, or reachable with its images
StoredDocker ==
    { <<JsNull, <<>>>>,
      <<JsString(Version(24, 0, 5)),
        <<ImageObject(<<"node", ":", "1", "8">>, JsDate(1042))>>>>,
      <<JsString(Version(24, 0, 5)),
        <<ImageObject(<<"node", ":", "1", "8">>, JsDate(7)),
          ImageObject(<<"redis", ":", "7">>, JsUndefined)>>>> }

StoredSnapshots ==
    { SnapshotObject(timestamp, openssl, docker[1], docker[2], nativeModules) :
        timestamp \in Times,
        openssl \in { JsUndefined, JsString(Version(3, 0, 0)) },
        docker \in StoredDocker,
        nativeModules \in { <<>>, <<NativeModuleObject(<<"bcrypt">>, JsDate(0))>> } }

\* the properties of an EnvironmentSnapshot, all of them required
RequiredFields ==
    { <<"timestamp">>, <<"environment">>, <<"nodeVersion">>, <<"dependencies">>,
      <<"envVars">>, <<"docker">>, <<"system">>, <<"hash">> }

\* the document without one of its top-level properties
WithoutField(text, key) ==
    JsonStringify(JsObject(SelectSeq(JsonParse(text).value.props, LAMBDA e : e[1] # key)))

\* the document with the images, or the native modules, of another tool: a string
\* where the list is expected, a null where an item is expected
WithProperty(text, owner, key, value) ==
    LET parsed == JsonParse(text).value
    IN JsonStringify(SetProp(parsed, owner, SetProp(GetProp(parsed, owner), key, value)))

\* what a file can hold in place of the saved document: the document cut short,
\* the document without one property, with a property of another type, and the
\* documents {}, null, [] and "production"
EditedDocuments(text) ==
    { SubSeq(text, 1, n) : n \in 0..(Len(text) - 1) }
    \cup { WithoutField(text, key) : key \in RequiredFields }
    \cup { WithProperty(text, <<"docker">>, <<"images">>, JsString(<<"none">>)),
           WithProperty(text, <<"docker">>, <<"images">>, JsArray(<<JsNull>>)),
           WithProperty(text, <<"dependencies">>, <<"nativeModules">>, JsNumber(1)) }
    \cup { JsonStringify(JsObject(<<>>)), JsonStringify(JsNull),
           JsonStringify(JsArray(<<>>)), JsonStringify(JsString(<<"production">>)) }

InitSer ==
    /\ local \in StoredSnapshots
    /\ remote = NoSnapshot
    /\ data = NoData
    /\ fragments = NoFragments
    /\ report = NoReport
    /\ pc = "start"
    /\ SyncIdle

\* writeFileSync(path, serializeSnapshot(snapshot))
SaveSnapshot ==
    /\ pc = "start"
    /\ data' = serializeSnapshot(local)
    /\ pc' = "saved"
    /\ UNCHANGED <<fragments, local, remote, report, options, todo, actions, calls,
                   inflight, result>>

\* the file is written by something else before it is read
EditDocument ==
    /\ pc = "saved"
    /\ data' \in EditedDocuments(data)
    /\ pc' = "edited"
    /\ UNCHANGED <<fragments, local, remote, report, options, todo, actions, calls,
                   inflight, result>>

\* remoteSnapshot = deserializeSnapshot(readFileSync(remotePath, 'utf-8'))
LoadSnapshot ==
    /\ pc \in {"saved", "edited"}
    /\ IF deserializeSnapshot(data) = Thrown
       THEN pc' = "threw" /\ remote' = remote
       ELSE pc' = "loaded" /\ remote' = deserializeSnapshot(data)
    /\ UNCHANGED <<fragments, data, local, report, options, todo, actions, calls,
                   inflight, result>>

NextSer == SaveSnapshot \/ EditDocument \/ LoadSnapshot

SpecSer == InitSer /\ [][NextSer]_vars

-----------------------------------------------------------------------------
(* EnvironmentSync.sync on reports made of drifts the comparator emits *)

\* a package whose directory name holds a dot: node_modules/node.bcrypt
DottedName == <<"node", ".", "bcrypt">>

\* two snapshots that differ in every category; the remote manifest declares
\* lodash with the empty range
SyncLocal ==
    EnvironmentSnapshot(Node18,
        DependencySnapshot(<< <<<<"moment">>, Version(2, 29, 0)>> >>, <<>>, HashA),
        <<>>,
        DockerSnapshot(Version(24, 0, 5), << [tags |-> << <<"node", ":", "1", "8">> >>] >>, <<>>),
        << <<"bcrypt">>, DottedName >>)

SyncRemote ==
    EnvironmentSnapshot(Node20,
        DependencySnapshot(<< <<Express, Version(5, 0, 0)>>, <<Lodash, <<>>>> >>, <<>>, HashB),
        << <<<<"NODE_ENV">>, <<"production">>>> >>,
        DockerSnapshot(Version(25, 0, 0), << [tags |-> << <<"redis", ":", "7">> >>] >>, <<>>),
        << <<"bcrypt">>, DottedName >>)

MaxDrifts == 2

\* the lists of at least one and at most MaxDrifts distinct drifts of a list, in any order
DriftLists(drifts) ==
    { [i \in 1..Len(ix) |-> drifts[ix[i]]] :
        ix \in { jx \in UNION { [1..n -> 1..Len(drifts)] : n \in 1..MaxDrifts } :
                   \A a, b \in 1..Len(jx) : a # b => jx[a] # jx[b] } }

CategoryFilters == { Undefined, <<>>, <<"dependency">>, <<"docker", "dependency">> }

SeverityCeilings == { "undefined", "none", "low", "high" }

SyncOptions ==
    [autoFix : BOOLEAN, dryRun : BOOLEAN,
     categories : CategoryFilters, maxSeverity : SeverityCeilings]

Init ==
    /\ local = SyncLocal
    /\ remote = SyncRemote
    /\ report = NoReport
    /\ pc = "start"
    /\ SyncIdle
    /\ CaptureIdle

\* the caller hands sync the report with a selection of its drifts:
\* { ...report, drifts: selectedDrifts }
SelectDrifts ==
    /\ pc = "compared"
    /\ \E selectedDrifts \in DriftLists(report.drifts) :
           report' = [report EXCEPT !.drifts = selectedDrifts]
    /\ pc' = "selected"
    /\ UNCHANGED <<fragments, data, local, remote, options, todo, actions, calls, inflight, result>>

\* sync up to the first block: the options are read, the drifts filtered and grouped
SyncBegin ==
    /\ pc \in {"compared", "selected"}
    /\ options' \in SyncOptions
    /\ todo' = groupDriftsByCategory(filterDrifts(report.drifts, options'))
    /\ pc' = "sync"
    /\ UNCHANGED <<fragments, data, local, remote, report, actions, calls, inflight, result>>

\* the loops of sync are suspended at an await execAsync(...) until the call settles
Suspended_noAwait == FALSE

Suspended == inflight # <<>>

\* whether a block still has a drift to process
Pending == \E i \in 1..Len(syncOrder) : todo[syncOrder[i]] # <<>>

\* the block whose loop is running: the first one, in the order of sync, with a drift left
Current ==
    syncOrder[CHOOSE i \in 1..Len(syncOrder) :
                  /\ todo[syncOrder[i]] # <<>>
                  /\ \A j \in 1..(i - 1) : todo[syncOrder[j]] = <<>>]

\* the outcome of the next loop iteration
NextStep == Handle(Current, Head(todo[Current]), options.dryRun)

\* a loop iteration that pushes its action without an external call
PushAction ==
    /\ pc = "sync" /\ ~Suspended /\ Pending
    /\ NextStep.kind = "push"
    /\ actions' = Append(actions, NextStep.action)
    /\ todo' = [todo EXCEPT ![Current] = Tail(@)]
    /\ UNCHANGED <<fragments, data, local, remote, report, options, pc, calls, inflight, result>>

\* a loop iteration that starts an external command and awaits it
IssueCall ==
    /\ pc = "sync" /\ ~Suspended /\ Pending
    /\ NextStep.kind = "exec"
    /\ calls' = Append(calls, [cmd |-> NextStep.cmd, drift |-> NextStep.drift,
                               at |-> Len(actions), outcome |-> "pending"])
    /\ inflight' = Append(inflight, [call |-> Len(calls) + 1, drift |-> NextStep.drift,
                                     cmd |-> NextStep.cmd, text |-> NextStep.text])
    /\ todo' = [todo EXCEPT ![Current] = Tail(@)]
    /\ UNCHANGED <<fragments, data, local, remote, report, options, pc, actions, result>>

\* a loop iteration that neither calls nor pushes
SkipDrift ==
    /\ pc = "sync" /\ ~Suspended /\ Pending
    /\ NextStep.kind = "nothing"
    /\ todo' = [todo EXCEPT ![Current] = Tail(@)]
    /\ UNCHANGED <<fragments, data, local, remote, report, options, pc, actions, calls, inflight, result>>

\* the awaited command exits with status 0: the success action is pushed
ExecResolve ==
    /\ pc = "sync" /\ inflight # <<>>
    /\ actions' = Append(actions, Done(Head(inflight).drift, Head(inflight).text))
    /\ calls' = [calls EXCEPT ![Head(inflight).call].outcome = "resolved"]
    /\ inflight' = Tail(inflight)
    /\ UNCHANGED <<fragments, data, local, remote, report, options, pc, todo, result>>

\* a failed command that ends the run: the drifts left are dropped
ExecReject_abort ==
    /\ pc = "sync" /\ inflight # <<>>
    /\ actions' = Append(actions, Failed(Head(inflight).drift,
                                         <<"Command failed: ">> \o Head(inflight).cmd))
    /\ calls' = [calls EXCEPT ![Head(inflight).call].outcome = "rejected"]
    /\ inflight' = Tail(inflight)
    /\ todo' = groupDriftsByCategory(<<>>)
    /\ UNCHANGED <<fragments, data, local, remote, report, options, pc, result>>

\* the awaited command fails: the catch block pushes the failed action
ExecReject ==
    /\ pc = "sync" /\ inflight # <<>>
    /\ actions' = Append(actions, Failed(Head(inflight).drift,
                                         <<"Command failed: ">> \o Head(inflight).cmd))
    /\ calls' = [calls EXCEPT ![Head(inflight).call].outcome = "rejected"]
    /\ inflight' = Tail(inflight)
    /\ UNCHANGED <<fragments, data, local, remote, report, options, pc, todo, result>>

\* a result that is a success as soon as one action succeeded
SyncReturn_anySucceeded ==
    /\ pc = "sync" /\ ~Suspended /\ ~Pending
    /\ LET succeeded == Count(actions, LAMBDA a : a.success)
           failed    == Count(actions, LAMBDA a : ~a.success)
       IN result' = [success |-> succeeded > 0 \/ failed = 0,
                     actions |-> actions,
                     summary |-> [total |-> Len(actions), succeeded |-> succeeded,
                                  failed |-> failed]]
    /\ pc' = "done"
    /\ UNCHANGED <<fragments, data, local, remote, report, options, todo, actions, calls, inflight>>

\* every block is done: the SyncResult is built and returned
SyncReturn ==
    /\ pc = "sync" /\ ~Suspended /\ ~Pending
    /\ LET succeeded == Count(actions, LAMBDA a : a.success)
           failed    == Count(actions, LAMBDA a : ~a.success)
       IN result' = [success |-> failed = 0,
                     actions |-> actions,
                     summary |-> [total |-> Len(actions), succeeded |-> succeeded,
                                  failed |-> failed]]
    /\ pc' = "done"
    /\ UNCHANGED <<fragments, data, local, remote, report, options, todo, actions, calls, inflight>>

Next ==
    \/ CompareSnapshots
    \/ SelectDrifts
    \/ SyncBegin
    \/ PushAction
    \/ IssueCall
    \/ SkipDrift
    \/ ExecResolve
    \/ ExecReject
    \/ SyncReturn

Spec == Init /\ [][Next]_vars

-----------------------------------------------------------------------------
(* Properties of the comparator *)

\* C1: comparing a snapshot with itself reports an empty drift list,
\* hasDrift = false and severity 'none'.
C1_SelfCompareNoDrift ==
    (pc = "compared" /\ local = remote) =>
        /\ report.drifts = <<>>
        /\ report.hasDrift = FALSE
        /\ report.severity = "none"

\* a snapshot with dependencies, variables, images and native modules compared
\* with itself
C1_Witness ==
    /\ pc = "compared"
    /\ local = remote
    /\ local.dependencies.production # <<>>
    /\ local.dependencies.development # <<>>
    /\ local.envVars.variables # <<>>
    /\ local.docker.images # <<>>
    /\ local.dependencies.nativeModules # <<>>
    /\ report.drifts = <<>>

\* none < low < medium < high < critical
SeverityRank(sev) ==
    CASE sev = "none" -> 0 [] sev = "low" -> 1 [] sev = "medium" -> 2
      [] sev = "high" -> 3 [] sev = "critical" -> 4

\* C4: the report's severity is 'none' exactly when there is no drift, and
\* otherwise the maximum severity among the drifts.
C4_OverallSeverityIsMax ==
    pc = "compared" =>
        /\ (report.severity = "none") <=> (report.drifts = <<>>)
        /\ report.drifts # <<>> =>
            /\ \E i \in 1..Len(report.drifts) : report.drifts[i].severity = report.severity
            /\ \A i \in 1..Len(report.drifts) :
                   SeverityRank(report.drifts[i].severity) <= SeverityRank(report.severity)

\* drifts of severities low, medium and high, none critical: the report is 'high'
C4_Witness ==
    /\ pc = "compared"
    /\ \E i, j, k \in 1..Len(report.drifts) :
           /\ report.drifts[i].severity = "low"
           /\ report.drifts[j].severity = "high"
           /\ report.drifts[k].severity = "medium"
           /\ i < j /\ j < k
    /\ \A i \in 1..Len(report.drifts) : report.drifts[i].severity # "critical"
    /\ report.severity = "high"

\* the names declared in the production or development bucket of a snapshot
Declared(snap) == Keys(snap.dependencies.production) \o Keys(snap.dependencies.development)

\* the ranges a snapshot declares for pkg
DeclaredRanges(snap, pkg) ==
    { e[2] : e \in { snap.dependencies.production[i] : i \in 1..Len(snap.dependencies.production) }
                   \cup { snap.dependencies.development[i] :
                            i \in 1..Len(snap.dependencies.development) } }
    \cap { Get(snap.dependencies.production, pkg), Get(snap.dependencies.development, pkg) }

\* the drifts of the report on the dependency pkg
DriftsOn(pkg) ==
    SelectSeq(report.drifts, LAMBDA d : d.field = <<"dependency", ".">> \o pkg)

\* C2: a package declared on exactly one side yields exactly one dependency drift:
\* remote-only has local absent, remote = the remote range, severity 'high';
\* local-only has local = the local range, remote absent, severity 'medium'.
C2_OneSidedDependency ==
    pc = "compared" =>
        \A pkg \in { Lodash, Express } :
            /\ (~Includes(Declared(local), pkg) /\ Includes(Declared(remote), pkg)) =>
                   /\ Len(DriftsOn(pkg)) = 1
                   /\ DriftsOn(pkg)[1].category = "dependency"
                   /\ DriftsOn(pkg)[1].local = Undefined
                   /\ DriftsOn(pkg)[1].remote \in DeclaredRanges(remote, pkg)
                   /\ DriftsOn(pkg)[1].severity = "high"
            /\ (Includes(Declared(local), pkg) /\ ~Includes(Declared(remote), pkg)) =>
                   /\ Len(DriftsOn(pkg)) = 1
                   /\ DriftsOn(pkg)[1].category = "dependency"
                   /\ DriftsOn(pkg)[1].local \in DeclaredRanges(local, pkg)
                   /\ DriftsOn(pkg)[1].remote = Undefined
                   /\ DriftsOn(pkg)[1].severity = "medium"

\* the rule of C3 on two version strings
VersionSeverityRule(l, r) ==
    IF SemverParse(l) = NoSemVer \/ SemverParse(r) = NoSemVer THEN "medium"
    ELSE IF SemverParse(l).major # SemverParse(r).major THEN "high"
    ELSE IF SemverParse(l).minor # SemverParse(r).minor THEN "medium"
    ELSE "low"

\* C3: the runtime-version drift and the drift of a dependency declared on both
\* sides with different version strings get their severity from one total rule:
\* 'medium' if either string does not parse, else 'high' on a major difference,
\* else 'medium' on a minor difference, else 'low'.
C3_VersionSeverityRule ==
    pc = "compared" =>
        /\ local.nodeVersion.version # remote.nodeVersion.version =>
               /\ Len(SelectSeq(report.drifts, LAMBDA d : d.field = <<"nodeVersion">>)) = 1
               /\ \A i \in 1..Len(report.drifts) :
                      report.drifts[i].field = <<"nodeVersion">> =>
                          /\ report.drifts[i].category = "nodejs"
                          /\ report.drifts[i].severity =
                                 VersionSeverityRule(local.nodeVersion.version,
                                                     remote.nodeVersion.version)
        /\ \A pkg \in { Lodash } :
               LET l == Get(local.dependencies.production, pkg)
                   r == Get(remote.dependencies.production, pkg)
               IN (l # Undefined /\ r # Undefined /\ l # r) =>
                      /\ Len(DriftsOn(pkg)) = 1
                      /\ DriftsOn(pkg)[1].category = "dependency"
                      /\ DriftsOn(pkg)[1].severity = VersionSeverityRule(l, r)
        /\ assessNodeVersionDrift(local.nodeVersion.version, remote.nodeVersion.version)
               = VersionSeverityRule(local.nodeVersion.version, remote.nodeVersion.version)
        /\ assessVersionDrift(local.nodeVersion.version, remote.nodeVersion.version)
               = VersionSeverityRule(local.nodeVersion.version, remote.nodeVersion.version)
        /\ \A i \in 1..Len(report.drifts) :
               report.drifts[i].severity \in {"low", "medium", "high"}

-----------------------------------------------------------------------------
(* Properties of the orchestrator *)

\* sync has read its options
Syncing == pc \in {"sync", "done"}

\* the drifts of the actions recorded so far, and of the calls issued so far
ActionDrifts == [i \in 1..Len(actions) |-> actions[i].drift]
CallDrifts == [k \in 1..Len(calls) |-> calls[k].drift]

ImageField(d) ==
    /\ Len(d.field) > 4
    /\ SubSeq(d.field, 1, 4) = <<"docker", ".", "image", ".">>

\* the drifts whose remediation is an external command when sync is not a dry run
NeedsCall(d) ==
    \/ d.category = "dependency" /\ d.field # <<"lockfile">>
    \/ d.category = "docker" /\ ImageField(d) /\ d.remote # Undefined
    \/ d.category = "binary"

\* a non-dry-run sync records nothing for an image that exists only locally
Recorded(d) ==
    options.dryRun \/ ~(d.category = "docker" /\ ImageField(d) /\ d.remote = Undefined)

\* a list of categories filters when it is not empty
PassesCategories(d) ==
    \/ options.categories = Undefined
    \/ options.categories = <<>>
    \/ \E i \in 1..Len(options.categories) : options.categories[i] = d.category

PassesCeiling(d) ==
    \/ options.maxSeverity = "undefined"
    \/ SeverityRank(d.severity) <= SeverityRank(options.maxSeverity)

\* dependency, envvar, docker, binary, nodejs
CategoryRank(c) ==
    CASE c = "dependency" -> 1 [] c = "envvar" -> 2 [] c = "docker" -> 3
      [] c = "binary" -> 4 [] c = "nodejs" -> 5

\* the drifts that pass a test, category by category, each category in report order
InProcessingOrder(Test(_)) ==
    LET Of(c) == SelectSeq(report.drifts, LAMBDA d : d.category = c /\ Test(d))
    IN Of("dependency") \o Of("envvar") \o Of("docker") \o Of("binary") \o Of("nodejs")

Rejected == { k \in 1..Len(calls) : calls[k].outcome = "rejected" }

\* C5: with dryRun = true sync issues no external command, whatever autoFix,
\* categories and maxSeverity are.
C5_DryRunNoExternalCall ==
    (Syncing /\ options.dryRun) => (calls = <<>> /\ inflight = <<>>)

\* a finished dry run, autoFix set, over the whole report: an action for every
\* drift, among them a package to install, an image to pull and a module to rebuild
C5_Witness ==
    /\ pc = "done"
    /\ options.dryRun /\ options.autoFix
    /\ options.categories = Undefined /\ options.maxSeverity = "undefined"
    /\ Len(result.actions) = Len(report.drifts)
    /\ \E i, j, k \in 1..Len(result.actions) :
           /\ result.actions[i].drift.category = "dependency"
           /\ result.actions[i].drift.field # <<"lockfile">>
           /\ result.actions[j].drift.category = "docker"
           /\ ImageField(result.actions[j].drift)
           /\ result.actions[k].drift.category = "binary"
    /\ calls = <<>>

\* C6: in a non-dry-run sync a failed command leaves a SyncAction with
\* success = false and an error text for its drift, and the run goes on: when sync
\* returns, a command was issued for every filtered drift that needs one and an
\* action recorded for every filtered drift sync records, failures or not; the
\* result has success = false exactly when a command failed and summary.failed
\* counts the failed commands.
C6_FailureDoesNotAbort ==
    (Syncing /\ ~options.dryRun) =>
        /\ \A k \in Rejected :
               /\ actions[calls[k].at + 1].drift = calls[k].drift
               /\ actions[calls[k].at + 1].success = FALSE
               /\ actions[calls[k].at + 1].error \notin {Undefined, <<>>}
        /\ pc = "done" =>
               /\ CallDrifts = InProcessingOrder(
                      LAMBDA d : PassesCategories(d) /\ PassesCeiling(d) /\ NeedsCall(d))
               /\ ActionDrifts = InProcessingOrder(
                      LAMBDA d : PassesCategories(d) /\ PassesCeiling(d) /\ Recorded(d))
               /\ result.success = (Rejected = {})
               /\ result.summary.failed = Cardinality(Rejected)

\* a dependency command fails, a docker pull issued after it succeeds, and the
\* result has success = false and summary.failed = 1
C6_Witness ==
    /\ pc = "done"
    /\ ~options.dryRun
    /\ \E k, l \in 1..Len(calls) :
           /\ k < l
           /\ calls[k].drift.category = "dependency" /\ calls[k].outcome = "rejected"
           /\ calls[l].drift.category = "docker" /\ calls[l].outcome = "resolved"
    /\ result.success = FALSE
    /\ result.summary.failed = 1

\* the place of a drift in the report
ReportIndex(d) == CHOOSE i \in 1..Len(report.drifts) : report.drifts[i] = d

\* d is processed before e: an earlier category, or the same one and earlier in the report
Before(d, e) ==
    \/ CategoryRank(d.category) < CategoryRank(e.category)
    \/ d.category = e.category /\ ReportIndex(d) < ReportIndex(e)

\* C7: commands and actions follow the category order dependency, envvar, docker,
\* binary, nodejs, and the report order within a category, whatever the order of
\* the drifts in the report.
C7_FixedCategoryOrder ==
    Syncing =>
        /\ \A i, j \in 1..Len(actions) :
               i < j => Before(actions[i].drift, actions[j].drift)
        /\ \A k, l \in 1..Len(calls) :
               k < l => Before(calls[k].drift, calls[l].drift)
        /\ \A k \in 1..Len(calls) : \A i \in 1..Len(actions) :
               /\ i <= calls[k].at => Before(actions[i].drift, calls[k].drift)
               /\ i > calls[k].at + 1 => Before(calls[k].drift, actions[i].drift)

\* a report that lists a nodejs drift before two dependency drifts that need a
\* command: the commands are issued first, the runtime instruction recorded last
C7_Witness ==
    /\ pc = "done"
    /\ Len(report.drifts) > MaxDrifts
    /\ \E a, b, c \in 1..Len(report.drifts) :
           /\ a < b /\ b < c
           /\ report.drifts[a].category = "nodejs"
           /\ report.drifts[b].category = "dependency"
           /\ report.drifts[c].category = "dependency"
           /\ Len(calls) >= 2
           /\ calls[1].drift = report.drifts[b] /\ calls[1].at = 0
           /\ calls[2].drift = report.drifts[c]
           /\ actions[Len(actions)].drift = report.drifts[a]

\* C8: at most one external command is in flight: only the last command issued can
\* be pending, and it is the one sync awaits.
C8_OneCallInFlight ==
    /\ Len(inflight) <= 1
    /\ \A k \in 1..Len(calls) :
           calls[k].outcome = "pending" =>
               /\ k = Len(calls)
               /\ inflight # <<>>
               /\ Head(inflight).call = k

\* a second command in flight after the first one failed
C8_Witness ==
    /\ Len(calls) = 2
    /\ calls[1].outcome = "rejected"
    /\ calls[2].outcome = "pending"
    /\ Len(inflight) = 1

\* C9: when a list of categories is supplied, the empty list included, every
\* action (and every command) is for a drift whose category is in the list.
C9_ActionsWithinCategories ==
    (Syncing /\ options.categories # Undefined) =>
        /\ \A i \in 1..Len(actions) :
               \E c \in 1..Len(options.categories) :
                   options.categories[c] = actions[i].drift.category
        /\ \A k \in 1..Len(calls) :
               \E c \in 1..Len(options.categories) :
                   options.categories[c] = calls[k].drift.category

\* C9, amended: when a non-empty list of categories is supplied, every action and
\* every command is for a drift whose category is in the list; the empty list is
\* no filter: sync then records an action for every drift the ceiling lets through.
C9_ActionsWithinNonEmptyCategories ==
    Syncing =>
        /\ (options.categories # Undefined /\ options.categories # <<>>) =>
               /\ \A i \in 1..Len(actions) :
                      \E c \in 1..Len(options.categories) :
                          options.categories[c] = actions[i].drift.category
               /\ \A k \in 1..Len(calls) :
                      \E c \in 1..Len(options.categories) :
                          options.categories[c] = calls[k].drift.category
        /\ (options.categories = <<>> /\ pc = "done") =>
               ActionDrifts = InProcessingOrder(LAMBDA d : PassesCeiling(d) /\ Recorded(d))

\* categories = ['dependency'] on a report with dependency and envvar drifts:
\* actions for the dependency drifts only
C9_Witness ==
    /\ pc = "done"
    /\ options.categories = << "dependency" >>
    /\ \E i, j \in 1..Len(report.drifts) :
           /\ report.drifts[i].category = "dependency"
           /\ report.drifts[j].category = "envvar"
    /\ result.actions # <<>>
    /\ \A i \in 1..Len(result.actions) : result.actions[i].drift.category = "dependency"

\* C10: when maxSeverity is supplied, sync works on a drift exactly when the drift
\* passes the category filter and its severity is at most maxSeverity: no action
\* and no command for a drift above the ceiling, and when sync returns an action
\* for every drift at or below it that sync records.
C10_SeverityCeiling ==
    (Syncing /\ options.maxSeverity # "undefined") =>
        /\ \A c \in Categories : \A i \in 1..Len(todo[c]) :
               PassesCategories(todo[c][i]) /\ PassesCeiling(todo[c][i])
        /\ \A i \in 1..Len(actions) :
               PassesCategories(actions[i].drift) /\ PassesCeiling(actions[i].drift)
        /\ \A k \in 1..Len(calls) :
               PassesCategories(calls[k].drift) /\ PassesCeiling(calls[k].drift)
        /\ pc = "done" =>
               \A i \in 1..Len(report.drifts) :
                   LET d == report.drifts[i]
                   IN (PassesCategories(d) /\ PassesCeiling(d)) =>
                          /\ Recorded(d) => \E a \in 1..Len(actions) : actions[a].drift = d
                          /\ (NeedsCall(d) /\ ~options.dryRun) =>
                                 \E k \in 1..Len(calls) : calls[k].drift = d

\* maxSeverity = 'high' on a report with a critical, a high and a medium drift of
\* the filtered categories: the high and the medium one get an action, the
\* critical one does not
C10_Witness ==
    /\ pc = "done"
    /\ options.maxSeverity = "high"
    /\ options.categories = Undefined
    /\ \E i, j, k \in 1..Len(report.drifts) :
           /\ report.drifts[i].severity = "critical"
           /\ report.drifts[j].severity = "high"
           /\ report.drifts[k].severity = "medium"
           /\ \A a \in 1..Len(result.actions) : result.actions[a].drift # report.drifts[i]
           /\ \E a \in 1..Len(result.actions) : result.actions[a].drift = report.drifts[j]
           /\ \E a \in 1..Len(result.actions) : result.actions[a].drift = report.drifts[k]

\* no categories and no maxSeverity option
NoFilters == options.categories = Undefined /\ options.maxSeverity = "undefined"

\* C11: a dry run without filters returns exactly one action per drift of the
\* report, summary.total is the number of drifts, and every action is a success.
C11_DryRunOneActionPerDrift ==
    (pc = "done" /\ options.dryRun /\ NoFilters) =>
        /\ result.summary.total = Len(report.drifts)
        /\ Len(result.actions) = Len(report.drifts)
        /\ \A i \in 1..Len(report.drifts) :
               Cardinality({ a \in 1..Len(result.actions) :
                               result.actions[a].drift = report.drifts[i] }) = 1
        /\ \A a \in 1..Len(result.actions) : result.actions[a].success = TRUE

\* a finished dry run over the whole report, which holds a drift of every
\* category and an image that exists only locally
C11_Witness ==
    /\ pc = "done" /\ options.dryRun /\ NoFilters
    /\ Len(report.drifts) > MaxDrifts
    /\ \A c \in Categories : \E i \in 1..Len(report.drifts) : report.drifts[i].category = c
    /\ \E a \in 1..Len(result.actions) :
           /\ ImageField(result.actions[a].drift)
           /\ result.actions[a].drift.remote = Undefined
    /\ result.summary.total = Len(report.drifts)

\* the text of a SyncAction starts with the simulation marker
Marked(a) == a.action # Undefined /\ a.action # <<>> /\ a.action[1] = "[DRY RUN]"

\* the text of a SyncAction is an instruction for the user
ManualText(a) ==
    /\ a.action # Undefined /\ a.action # <<>>
    /\ \/ a.action[1] = "[MANUAL]"
       \/ a.action = <<"Lockfile sync requires manual 'npm install' or 'npm ci'">>

\* the drifts a handler remediates with a command: packages, images, native modules
Automated(d) ==
    \/ d.category = "dependency" /\ d.field # <<"lockfile">>
    \/ d.category = "docker" /\ ImageField(d)
    \/ d.category = "binary"

\* C12: in the result of a dry run every action, whatever the category of its
\* drift, has a text that starts with '[DRY RUN]'.
C12_DryRunMarkerEverywhere ==
    (pc = "done" /\ options.dryRun) =>
        \A a \in 1..Len(result.actions) : Marked(result.actions[a])

\* C12, amended: in the result of a dry run the action of a drift that sync
\* remediates with a command (a package other than the lockfile, an image, a native
\* module) starts with '[DRY RUN]'; the action of any other drift (lockfile,
\* envvar, docker engine version, nodejs) is the manual instruction, unmarked.
C12_DryRunMarkerOnAutomated ==
    (pc = "done" /\ options.dryRun) =>
        \A a \in 1..Len(result.actions) :
            IF Automated(result.actions[a].drift)
            THEN Marked(result.actions[a])
            ELSE ~Marked(result.actions[a]) /\ ManualText(result.actions[a])

\* a finished dry run with a marked action for a package, an image and a native
\* module, and an unmarked one for the lockfile, a variable, the docker version
\* and the runtime
C12_Witness ==
    /\ pc = "done" /\ options.dryRun
    /\ \A c \in Categories :
           \E a \in 1..Len(result.actions) : result.actions[a].drift.category = c
    /\ \E a, b \in 1..Len(result.actions) :
           /\ result.actions[a].drift.field = <<"lockfile">>
           /\ ~Marked(result.actions[a])
           /\ result.actions[b].drift.category = "dependency"
           /\ Marked(result.actions[b])
    /\ \E a, b \in 1..Len(result.actions) :
           /\ result.actions[a].drift.category = "docker"
           /\ ~Marked(result.actions[a])
           /\ result.actions[b].drift.category = "docker"
           /\ Marked(result.actions[b])

\* the actions of the result that failed
FailedActions == { a \in 1..Len(result.actions) : result.actions[a].success = FALSE }

\* C13: in every SyncResult success is true exactly when no action failed,
\* summary.total is the number of actions and is succeeded + failed, and
\* summary.failed is the number of actions with success = false.
C13_ResultSummary ==
    pc = "done" =>
        /\ result.success = (FailedActions = {})
        /\ result.summary.total = Len(result.actions)
        /\ result.summary.total = result.summary.succeeded + result.summary.failed
        /\ result.summary.failed = Cardinality(FailedActions)

\* a result with two failed actions and at least two successful ones
C13_Witness ==
    /\ pc = "done"
    /\ result.summary.failed = 2
    /\ result.summary.succeeded >= 2
    /\ result.success = FALSE

\* the package a dependency drift is about: its field without 'dependency.'
PackageOf(d) == SubSeq(d.field, 3, Len(d.field))

\* the commands issued for a drift
CallsFor(d) == { k \in 1..Len(calls) : calls[k].drift = d }

\* C14: in a non-dry-run sync each dependency drift other than the lockfile drift
\* triggers exactly one command: 'npm uninstall <package>' when the drift's remote
\* value is absent, otherwise 'npm install <package>@<remote> --save-exact'.
C14_DependencyCommand ==
    (pc = "done" /\ ~options.dryRun) =>
        \A i \in 1..Len(report.drifts) :
            LET d == report.drifts[i]
            IN ( /\ d.category = "dependency" /\ d.field # <<"lockfile">>
                 /\ PassesCategories(d) /\ PassesCeiling(d) ) =>
                   /\ Cardinality(CallsFor(d)) = 1
                   /\ \A k \in CallsFor(d) :
                          calls[k].cmd =
                              IF d.remote = Undefined
                              THEN <<"npm uninstall ">> \o PackageOf(d)
                              ELSE <<"npm install ">> \o PackageOf(d) \o <<"@">>
                                       \o d.remote \o <<" --save-exact">>

\* the drifts sync only gives an instruction for
Informational(d) ==
    \/ d.category = "dependency" /\ d.field = <<"lockfile">>
    \/ d.category = "envvar"
    \/ d.category = "nodejs"

\* C15: sync issues no command for the lockfile drift, for an envvar drift or for
\* a nodejs drift, in a dry run or not; each such drift gets exactly one action,
\* a success whose text is a manual instruction.
C15_ManualOnlyDrifts ==
    Syncing =>
        /\ \A k \in 1..Len(calls) : ~Informational(calls[k].drift)
        /\ pc = "done" =>
               \A i \in 1..Len(report.drifts) :
                   LET d == report.drifts[i]
                   IN (Informational(d) /\ PassesCategories(d) /\ PassesCeiling(d)) =>
                          /\ Cardinality({ a \in 1..Len(actions) : actions[a].drift = d }) = 1
                          /\ \A a \in 1..Len(actions) :
                                 actions[a].drift = d =>
                                     actions[a].success = TRUE /\ ManualText(actions[a])

\* a finished non-dry-run sync that issued commands and recorded the instruction
\* for the lockfile, a variable and the runtime
C15_Witness ==
    /\ pc = "done" /\ ~options.dryRun
    /\ calls # <<>>
    /\ \E a, b, c \in 1..Len(actions) :
           /\ actions[a].drift.field = <<"lockfile">> /\ ManualText(actions[a])
           /\ actions[b].drift.category = "envvar" /\ ManualText(actions[b])
           /\ actions[c].drift.category = "nodejs" /\ ManualText(actions[c])

\* the actions recorded for a drift
ActionsFor(d) == { a \in 1..Len(actions) : actions[a].drift = d }

\* the tag a docker image drift is about: its field without 'docker.image.'
TagOf(d) == SubSeq(d.field, 5, Len(d.field))

\* C16: in a non-dry-run sync every docker drift yields exactly one action: an image
\* tag present only remotely triggers exactly one 'docker pull <tag>'; every other
\* docker drift (engine version, image tag present only locally) yields a successful
\* manual instruction and no command.
C16_DockerOneAction ==
    (pc = "done" /\ ~options.dryRun) =>
        \A i \in 1..Len(report.drifts) :
            LET d == report.drifts[i]
            IN (d.category = "docker" /\ PassesCategories(d) /\ PassesCeiling(d)) =>
                   /\ Cardinality(ActionsFor(d)) = 1
                   /\ IF ImageField(d) /\ d.local = Undefined /\ d.remote # Undefined
                      THEN /\ Cardinality(CallsFor(d)) = 1
                           /\ \A k \in CallsFor(d) :
                                  calls[k].cmd = <<"docker pull ">> \o TagOf(d)
                      ELSE /\ CallsFor(d) = {}
                           /\ \A a \in ActionsFor(d) :
                                  actions[a].success = TRUE /\ ManualText(actions[a])

\* the names of the native modules of the two snapshots
NativeNames ==
    { local.dependencies.nativeModules[i].name :
        i \in 1..Len(local.dependencies.nativeModules) }
    \cup { remote.dependencies.nativeModules[i].name :
             i \in 1..Len(remote.dependencies.nativeModules) }

\* the field paths under which the comparator reports the native module name
FieldsOf(name) ==
    { <<"native", ".">> \o name \o suffix :
        suffix \in { <<>>, <<".", "platform">>, <<".", "arch">>, <<".", "abi">> } }

\* C17: in a non-dry-run sync the rebuild issued for a binary drift is
\* 'npm rebuild <name>' with <name> the native module the drift is about, also
\* when the name holds a dot.
C17_RebuildTargetsModule ==
    (Syncing /\ ~options.dryRun) =>
        \A k \in 1..Len(calls) :
            calls[k].drift.category = "binary" =>
                \E name \in NativeNames :
                    /\ calls[k].drift.field \in FieldsOf(name)
                    /\ calls[k].cmd = <<"npm rebuild ">> \o name

-----------------------------------------------------------------------------
(* Properties of the comparator, continued *)

\* C18: no two drifts of a report have the same field path, also when a list of
\* native modules holds several modules of the same name.
C18_UniqueFieldPaths ==
    pc = "compared" =>
        \A i, j \in 1..Len(report.drifts) :
            i # j => report.drifts[i].field # report.drifts[j].field

\* the names of the native modules of a snapshot
NamesIn(snap) ==
    { snap.dependencies.nativeModules[i].name :
        i \in 1..Len(snap.dependencies.nativeModules) }

\* the places of the binary drifts of the report on a field path
BinaryDriftsAt(field) ==
    { i \in 1..Len(report.drifts) :
        report.drifts[i].category = "binary" /\ report.drifts[i].field = field }

\* exactly one 'critical' drift at the field when the attribute differs, none otherwise
OneCriticalIff(field, differs) ==
    /\ Cardinality(BinaryDriftsAt(field)) = (IF differs THEN 1 ELSE 0)
    /\ \A i \in BinaryDriftsAt(field) : report.drifts[i].severity = "critical"

\* C20: for a native module name present on both sides there is one 'critical'
\* binary drift for each of platform, architecture and ABI that differs, each on
\* its own; a name present only remotely gets one 'high' drift, a name present
\* only locally one 'medium' drift.
C20_NativeModuleDrifts ==
    pc = "compared" =>
        \A name \in NamesIn(local) \cup NamesIn(remote) :
            LET base == <<"native", ".">> \o name
            IN IF name \in NamesIn(local) /\ name \in NamesIn(remote)
               THEN /\ OneCriticalIff(base \o <<".", "platform">>,
                          local.nodeVersion.platform # remote.nodeVersion.platform)
                    /\ OneCriticalIff(base \o <<".", "arch">>,
                          local.nodeVersion.arch # remote.nodeVersion.arch)
                    /\ OneCriticalIff(base \o <<".", "abi">>,
                          local.nodeVersion.modules # remote.nodeVersion.modules)
                    /\ BinaryDriftsAt(base) = {}
               ELSE /\ Cardinality(BinaryDriftsAt(base)) = 1
                    /\ \A i \in BinaryDriftsAt(base) :
                           report.drifts[i].severity =
                               IF name \in NamesIn(remote) THEN "high" ELSE "medium"
                    /\ \A suffix \in { <<".", "platform">>, <<".", "arch">>, <<".", "abi">> } :
                           BinaryDriftsAt(base \o suffix) = {}

\* the keys of the variables of a snapshot
EnvKeysIn(snap) ==
    { snap.envVars.variables[i][1] : i \in 1..Len(snap.envVars.variables) }

\* the value a snapshot holds for a key it has
EnvValue(snap, key) ==
    snap.envVars.variables[CHOOSE i \in 1..Len(snap.envVars.variables) :
                               snap.envVars.variables[i][1] = key][2]

\* the places of the envvar drifts of the report on a key
EnvDriftsOn(key) ==
    { i \in 1..Len(report.drifts) :
        report.drifts[i].category = "envvar"
        /\ report.drifts[i].field = <<"env", ".">> \o key }

\* exactly one envvar drift on the key, of the severity
OneEnvDrift(key, severity) ==
    /\ Cardinality(EnvDriftsOn(key)) = 1
    /\ \A i \in EnvDriftsOn(key) : report.drifts[i].severity = severity

\* C19: for every key: one 'high' envvar drift if the key exists only remotely,
\* one 'low' drift if only locally, one 'medium' drift if it exists on both sides
\* with different values neither of which is '[REDACTED]', and no drift if it
\* exists on both sides with equal values or with the sentinel on either side.
C19_EnvVarDrifts ==
    pc = "compared" =>
        \A key \in EnvKeys :
            LET inLocal  == key \in EnvKeysIn(local)
                inRemote == key \in EnvKeysIn(remote)
            IN /\ (~inLocal /\ inRemote) => OneEnvDrift(key, "high")
               /\ (inLocal /\ ~inRemote) => OneEnvDrift(key, "low")
               /\ (inLocal /\ inRemote) =>
                      IF /\ EnvValue(local, key) # EnvValue(remote, key)
                         /\ EnvValue(local, key) # <<"[REDACTED]">>
                         /\ EnvValue(remote, key) # <<"[REDACTED]">>
                      THEN OneEnvDrift(key, "medium")
                      ELSE EnvDriftsOn(key) = {}
               /\ (~inLocal /\ ~inRemote) => EnvDriftsOn(key) = {}

\* NODE_ENV differs in the clear and is reported 'medium'; API_KEY is redacted
\* locally, in the clear remotely, and is not reported
C19_Witness ==
    /\ pc = "compared"
    /\ EnvKeysIn(local) = EnvKeys /\ EnvKeysIn(remote) = EnvKeys
    /\ EnvValue(local, <<"NODE_ENV">>) = <<"development">>
    /\ EnvValue(remote, <<"NODE_ENV">>) = <<"production">>
    /\ EnvValue(local, <<"API_KEY">>) = <<"[REDACTED]">>
    /\ EnvValue(remote, <<"API_KEY">>) = <<"production">>
    /\ Len(report.drifts) = 1
    /\ report.drifts[1].field = <<"env", ".", "NODE_ENV">>
    /\ report.drifts[1].severity = "medium"

\* the docker drifts of the report that are neither the engine version nor an image
ComposeDrifts ==
    { i \in 1..Len(report.drifts) :
        /\ report.drifts[i].category = "docker"
        /\ report.drifts[i].field # <<"docker", ".", "version">>
        /\ ~ImageField(report.drifts[i]) }

\* C21: when the two snapshots hold a different number of compose descriptors the
\* report has drift, with a docker drift for the compose count.
C21_ComposeCountMismatch ==
    (pc = "compared"
     /\ Len(local.docker.composeConfigs) # Len(remote.docker.composeConfigs)) =>
        /\ report.hasDrift = TRUE
        /\ ComposeDrifts # {}
        /\ \A i \in ComposeDrifts : report.drifts[i].local # report.drifts[i].remote

\* the nodejs drifts of the report on one field
NodeDriftsOn(field) ==
    { i \in 1..Len(report.drifts) :
        report.drifts[i].category = "nodejs" /\ report.drifts[i].field = field }

\* exactly one nodejs drift on the field, of the given severity, holding the two values
OneNodeDrift(field, severity, l, r) ==
    /\ Cardinality(NodeDriftsOn(field)) = 1
    /\ \A i \in NodeDriftsOn(field) :
          /\ report.drifts[i].severity = severity
          /\ report.drifts[i].local = l
          /\ report.drifts[i].remote = r

\* C22: whenever the runtime platform of the two snapshots differs the report holds
\* exactly one nodejs drift on 'platform', of severity 'critical', and whenever the
\* runtime architecture differs exactly one nodejs drift on 'arch', of severity
\* 'critical', whatever the other fields are; in both cases the overall severity of
\* the report is 'critical'
C22_PlatformArchCritical ==
    pc = "compared" =>
        /\ (local.nodeVersion.platform # remote.nodeVersion.platform =>
               /\ OneNodeDrift(<<"platform">>, "critical",
                               local.nodeVersion.platform, remote.nodeVersion.platform)
               /\ report.severity = "critical")
        /\ (local.nodeVersion.arch # remote.nodeVersion.arch =>
               /\ OneNodeDrift(<<"arch">>, "critical",
                               local.nodeVersion.arch, remote.nodeVersion.arch)
               /\ report.severity = "critical")

\* C22 witness: a compared pair with the same runtime version, package manager and
\* platform whose architecture alone differs
C22_Witness ==
    /\ pc = "compared"
    /\ local.nodeVersion.arch # remote.nodeVersion.arch
    /\ local.nodeVersion.platform = remote.nodeVersion.platform
    /\ local.nodeVersion.version = remote.nodeVersion.version
    /\ local.nodeVersion.npmVersion = remote.nodeVersion.npmVersion
    /\ local.dependencies.nativeModules = <<>>
    /\ remote.dependencies.nativeModules = <<>>
    /\ Len(report.drifts) = 1
    /\ report.severity = "critical"

\* C30: a difference in the package-manager version of the two runtime infos yields
\* exactly one nodejs drift on 'npmVersion', always of severity 'low', a difference
\* in the major version included: the version severity rule is not applied to it
C30_NpmVersionLow ==
    (pc = "compared" /\ local.nodeVersion.npmVersion # remote.nodeVersion.npmVersion) =>
        OneNodeDrift(<<"npmVersion">>, "low",
                     local.nodeVersion.npmVersion, remote.nodeVersion.npmVersion)

\* C30 witness: a compared pair whose package-manager versions differ in the major
\* component, which the version severity rule would rate 'high', and in nothing else
C30_Witness ==
    /\ pc = "compared"
    /\ local.nodeVersion.npmVersion = Version(9, 0, 0)
    /\ remote.nodeVersion.npmVersion = Version(10, 0, 0)
    /\ assessVersionDrift(local.nodeVersion.npmVersion, remote.nodeVersion.npmVersion) = "high"
    /\ Len(report.drifts) = 1
    /\ report.severity = "low"

\* the version a manifest range is anchored on: the range without its caret or tilde
RangeBase(range) ==
    IF range # <<>> /\ range[1] \in { "^", "~" } THEN Tail(range) ELSE range

\* C23: a dependency declared on both sides whose version ranges differ in the major
\* component, written as in a package manifest with or without a caret, is reported
\* by one drift of severity 'high' whose impact text is a 'Major version change'
C23_MajorRangeChange ==
    pc = "compared" =>
        LET l == Get(local.dependencies.production, Lodash)
            r == Get(remote.dependencies.production, Lodash)
        IN (/\ l # Undefined /\ r # Undefined
            /\ SemverParse(RangeBase(l)) # NoSemVer
            /\ SemverParse(RangeBase(r)) # NoSemVer
            /\ SemverParse(RangeBase(l)).major # SemverParse(RangeBase(r)).major) =>
               /\ Len(DriftsOn(Lodash)) = 1
               /\ DriftsOn(Lodash)[1].severity = "high"
               /\ DriftsOn(Lodash)[1].impact[1] = "Major version change"

\* the longest prefix of a drift list that is rearranged in every possible way
MaxPermuted == 3

\* the positions of the drifts that pass a test
Positions(drifts, Test(_)) == { i \in 1..Len(drifts) : Test(drifts[i]) }

\* the list with the drifts at positions i and j exchanged
Swapped(drifts, i, j) ==
    [k \in 1..Len(drifts) |->
        IF k = i THEN drifts[j] ELSE IF k = j THEN drifts[i] ELSE drifts[k]]

\* the list with its first n drifts rearranged by the permutation p of 1..n
Rearranged(drifts, n, p) ==
    [k \in 1..Len(drifts) |-> IF k <= n THEN drifts[p[k]] ELSE drifts[k]]

\* the number of leading drifts that are rearranged
Leading(drifts) == IF Len(drifts) < MaxPermuted THEN Len(drifts) ELSE MaxPermuted

\* C24: in every report of compareSnapshots summary.total is the number of drifts,
\* summary.critical, high, medium and low are the numbers of drifts of that severity,
\* summary.byCategory[c] is the number of drifts of category c, the severity counts
\* and the category counts both sum to total, and the summary of the drift list
\* rearranged (any two drifts exchanged, or the leading drifts permuted in every
\* way) is the same summary
C24_SummaryCounts ==
    pc = "compared" =>
        LET drifts == report.drifts
            summary == report.summary
        IN /\ summary.total = Len(drifts)
           /\ summary.critical = Cardinality(Positions(drifts, LAMBDA d : d.severity = "critical"))
           /\ summary.high = Cardinality(Positions(drifts, LAMBDA d : d.severity = "high"))
           /\ summary.medium = Cardinality(Positions(drifts, LAMBDA d : d.severity = "medium"))
           /\ summary.low = Cardinality(Positions(drifts, LAMBDA d : d.severity = "low"))
           /\ DOMAIN summary.byCategory = {"nodejs", "dependency", "envvar", "docker", "binary"}
           /\ \A c \in DOMAIN summary.byCategory :
                  summary.byCategory[c] = Cardinality(Positions(drifts, LAMBDA d : d.category = c))
           /\ summary.critical + summary.high + summary.medium + summary.low = summary.total
           /\ summary.byCategory["nodejs"] + summary.byCategory["dependency"]
                  + summary.byCategory["envvar"] + summary.byCategory["docker"]
                  + summary.byCategory["binary"] = summary.total
           /\ \A i, j \in 1..Len(drifts) :
                  generateSummary(Swapped(drifts, i, j)) = summary
           /\ \A p \in Permutations(1..Leading(drifts)) :
                  generateSummary(Rearranged(drifts, Leading(drifts), p)) = summary

\* C24 witness: a report of three drifts, every rearrangement of which is summarised,
\* holding two severities and two categories
C24_Witness ==
    /\ pc = "compared"
    /\ Len(report.drifts) = 3
    /\ report.summary.total = 3
    /\ report.summary.medium = 2
    /\ report.summary.high = 1
    /\ report.summary.byCategory["nodejs"] = 1
    /\ report.summary.byCategory["docker"] = 2
    /\ report.drifts[1].severity # report.drifts[3].severity

\* C28: two snapshots with equal fingerprints are not distinguished by the
\* comparator: if hashSnapshot gives the same value for both, compareSnapshots on
\* them reports no drift
C28_EqualHashNoDrift ==
    (pc = "compared" /\ compareSnapshotHashes(hashSnapshot(local), hashSnapshot(remote))) =>
        /\ report.hasDrift = FALSE
        /\ report.drifts = <<>>

\* C29: every drift of a report carries a local value that differs from its remote
\* value, the lockfile drift with the first 8 characters of each hash included
C29_DriftValuesDiffer ==
    pc = "compared" =>
        \A i \in 1..Len(report.drifts) : report.drifts[i].local # report.drifts[i].remote

\* the collaborators of a capture that failed
FailedFragments ==
    { c \in {"npm", "dependencies", "daemon", "compose", "system"} : fragments[c] = "fail" }

\* C27: captureSnapshot never fails because one capture fragment failed: when exactly
\* one collaborator fails the call still resolves with a snapshot, in which the
\* fragment of a failed dependency capture is the empty dependency fragment and the
\* fragment of a failed compose-file scan is the empty container fragment
C27_BestEffortCapture ==
    (pc \in {"captured", "rejected"} /\ Cardinality(FailedFragments) = 1) =>
        /\ pc = "captured"
        /\ local # NoSnapshot
        /\ fragments.dependencies = "fail" =>
               /\ local.dependencies.production = <<>>
               /\ local.dependencies.lockfileHash = <<>>
               /\ local.dependencies.nativeModules = <<>>
        /\ fragments.compose = "fail" => local.docker = EmptyDocker

\* the items of the list at snapshot[owner][key]
ItemsAt(snapshot, owner, key) == GetProp(GetProp(snapshot, owner), key).items

\* C25: for every assembled snapshot S, deserializeSnapshot of serializeSnapshot(S)
\* returns a snapshot whose serialization is serializeSnapshot(S) again, whose
\* timestamp, image created and native-module modified are the Dates of S (an image
\* without a creation time keeps none), and whose hash and environment are those of S
C25_RoundTrip ==
    (pc \in {"loaded", "threw"} /\ data = serializeSnapshot(local)) =>
        /\ pc = "loaded"
        /\ serializeSnapshot(remote) = serializeSnapshot(local)
        /\ IsDate(GetProp(remote, <<"timestamp">>))
        /\ GetProp(remote, <<"timestamp">>) = GetProp(local, <<"timestamp">>)
        /\ Len(ItemsAt(remote, <<"docker">>, <<"images">>))
               = Len(ItemsAt(local, <<"docker">>, <<"images">>))
        /\ \A i \in 1..Len(ItemsAt(local, <<"docker">>, <<"images">>)) :
               GetProp(ItemsAt(remote, <<"docker">>, <<"images">>)[i], <<"created">>)
                   = GetProp(ItemsAt(local, <<"docker">>, <<"images">>)[i], <<"created">>)
        /\ Len(ItemsAt(remote, <<"dependencies">>, <<"nativeModules">>))
               = Len(ItemsAt(local, <<"dependencies">>, <<"nativeModules">>))
        /\ \A i \in 1..Len(ItemsAt(local, <<"dependencies">>, <<"nativeModules">>)) :
               LET modified ==
                       GetProp(ItemsAt(remote, <<"dependencies">>, <<"nativeModules">>)[i],
                               <<"modified">>)
               IN /\ IsDate(modified)
                  /\ modified
                       = GetProp(ItemsAt(local, <<"dependencies">>, <<"nativeModules">>)[i],
                                 <<"modified">>)
        /\ GetProp(remote, <<"hash">>) = GetProp(local, <<"hash">>)
        /\ GetProp(remote, <<"environment">>) = GetProp(local, <<"environment">>)

\* C25 witness: a saved snapshot loaded back unchanged, holding an image with a
\* creation time, an image without one and a native module
C25_Witness ==
    /\ pc = "loaded"
    /\ data = serializeSnapshot(local)
    /\ Len(ItemsAt(local, <<"docker">>, <<"images">>)) = 2
    /\ IsDate(GetProp(ItemsAt(remote, <<"docker">>, <<"images">>)[1], <<"created">>))
    /\ GetProp(ItemsAt(remote, <<"docker">>, <<"images">>)[2], <<"created">>) = JsUndefined
    /\ Len(ItemsAt(remote, <<"dependencies">>, <<"nativeModules">>)) = 1
    /\ GetProp(remote, <<"timestamp">>) = JsDate(7)

\* a malformed document: not JSON, or JSON that is not an object holding every
\* property of an EnvironmentSnapshot
Malformed(text) ==
    \/ JsonParse(text) = SyntaxError
    \/ ~IsObject(JsonParse(text).value)
    \/ \E key \in RequiredFields : GetProp(JsonParse(text).value, key) = JsUndefined

\* C26: deserializeSnapshot applied to a malformed document, one that is not JSON or
\* one that is JSON but lacks required snapshot fields, throws and never returns a
\* snapshot value
C26_MalformedDocumentThrows ==
    (pc \in {"loaded", "threw"} /\ Malformed(data)) => pc = "threw"

=============================================================================
